---- MODULE Spec2Model ----
(***************************************************************************)
(* The emotion analyzer of The-Fifth-Season (src/src/emotion_analyzer/     *)
(* analyzer.py) as a state machine.                                        *)
(*                                                                         *)
(* Representation.                                                         *)
(*  - A Python str is a sequence of characters; a character is the string  *)
(*    "Uxxxx" of its code point (家 is "U5BB6").                           *)
(*  - A Python dict is a sequence of entries in insertion order, which is  *)
(*    the order Python iterates it in.  The lexicon and the attribution    *)
(*    map are sequences of [emotion, keywords].                            *)
(*  - A score and a weight are kept as the float the code holds, f, worked  *)
(*    out exactly (see "Python floats"), next to a whole number v that is  *)
(*    easy to read: for a score the sum of the literals added, in          *)
(*    hundredths (1.5 is 150); for a weight the float in units of          *)
(*    1/WScale, rounded down.  emotion_scores and the weight map are       *)
(*    sequences of [k, v, f].  max(), sorted() and :.2f read f.            *)
(*  - Polarity and subjectivity are in tenths.  Diversity is the float the *)
(*    code returns; a float below zero is Minus of its size.               *)
(*  - np.log2 is the platform's: where the logarithm is not a float itself *)
(*    the library gives one of the two floats around it, the same one for  *)
(*    the same number within a call.  Where calls are repeated or run side *)
(*    by side it is held to the answers it gave before (numpy), as the     *)
(*    tokenizer and the scorer are to theirs.                              *)
(***************************************************************************)
EXTENDS Integers, Sequences, FiniteSets, TLC

VARIABLES
    EMOTION_CATEGORIES, \* config.settings.EMOTION_CATEGORIES (the lexicon)
    CHINESE_STOPWORDS,  \* config.settings.CHINESE_STOPWORDS
    emotion_keywords,   \* self.emotion_keywords
    emotion_dict,       \* self.emotion_dict
    stopwords,          \* self.stopwords
    frame,              \* the local variables of each thread's analyze_text call
    jieba,              \* the segmentation the tokenizer gave, per text it was asked
    textblob,           \* the sentiment the scorer gave, per text it was asked
    numpy,              \* the logarithm np.log2 gave, per number it was asked
    results,            \* per thread, what its calls returned so far, in order
    call,               \* the last direct call of a function: its name, arguments, value
    session_state,      \* st.session_state of the Streamlit page
    generator           \* where the story generator's running call is, and its locals

vars == <<EMOTION_CATEGORIES, CHINESE_STOPWORDS, emotion_keywords, emotion_dict,
          stopwords, frame, jieba, textblob, numpy, results, call, session_state, generator>>

----------------------------------------------------------------------------
(* Characters and strings *)

\* 好
ch_hao == "U597D"
\* 树
ch_shu == "U6811"
\* an ASCII space
ch_space == "U0020"
\* the full-width comma ，
ch_comma == "UFF0C"

\* characters matched by 一-龥, a-z, A-Z, 0-9 in the model's alphabet
WordChars == {ch_hao, ch_shu}
\* characters matched by \s
SpaceChars == {ch_space}
Alphabet == WordChars \cup SpaceChars \cup {ch_comma}

\* the emotion categories, by name
\* 思念
SiNian == "SiNian"
\* 失落
ShiLuo == "ShiLuo"
\* 期待
QiDai == "QiDai"
\* 无助
WuZhu == "WuZhu"
\* 温暖
WenNuan == "WenNuan"
\* 忧伤
YouShang == "YouShang"
\* 喜悦
XiYue == "XiYue"
\* 平静
PingJing == "PingJing"

\* the eight emotion categories
Categories == {SiNian, ShiLuo, QiDai, WuZhu, WenNuan, YouShang, XiYue, PingJing}

\* Python's None
None == "None"

\* Python's `a in b` for two strings
IsSubstring(a, b) ==
    \E i \in 0..(Len(b) - Len(a)) : SubSeq(b, i + 1, i + Len(a)) = a

\* str.strip(): drop leading and trailing whitespace
RECURSIVE LStrip(_)
LStrip(s) ==
    IF s # <<>> /\ Head(s) \in SpaceChars THEN LStrip(Tail(s)) ELSE s

RECURSIVE RStrip(_)
RStrip(s) ==
    IF s # <<>> /\ s[Len(s)] \in SpaceChars
    THEN RStrip(SubSeq(s, 1, Len(s) - 1)) ELSE s

Strip(s) == RStrip(LStrip(s))

\* ' '.join(words)
RECURSIVE Join(_)
Join(words) ==
    IF words = <<>> THEN <<>>
    ELSE IF Len(words) = 1 THEN words[1]
    ELSE words[1] \o <<ch_space>> \o Join(Tail(words))

\* sequences over S of length at most n
SeqsUpTo(S, n) == UNION {[1..k -> S] : k \in 0..n}

----------------------------------------------------------------------------
(* Python floats.  An IEEE 754 double x >= 0 is kept exactly, as the natural  *)
(* number x * 2^(LimbBits * UnitLimbs) written in base Limb with the least    *)
(* digit first, and every operation rounds its exact result to 53 significant *)
(* bits, a tie to the even one.  Exact for the doubles from 2^-21 up to 2^40. *)
(* A float below zero is Minus(f) of its size f; -0.0 is held as 0.0, which   *)
(* it equals.                                                                 *)

RECURSIVE Doubled(_)
Doubled(n) == IF n = 0 THEN 1 ELSE 2 * Doubled(n - 1)

\* the powers of two an integer can hold: 2^0 to 2^30
Powers == SubSeq([i \in 1..31 |-> Doubled(i - 1)], 1, 31)

Pow2(n) == Powers[n + 1]

\* the largest e with 2^e <= n, for n >= 1
RECURSIVE FloorLog2(_)
FloorLog2(n) == IF n < 2 THEN 0 ELSE 1 + FloorLog2(n \div 2)

\* the digits of a natural number, least first, are in base Limb
Limb == 1048576
\* 2^LimbBits = Limb
LimbBits == 20
\* the digits kept
Wide == 6
\* a float x is the natural number x * 2^(LimbBits * UnitLimbs)
UnitLimbs == 4
\* the significant bits of an IEEE 754 double
Significand == 53
\* the bits of one digit of a quotient or of a root, and 2^ChunkBits
ChunkBits == 10
Chunk == 1024

\* F(x), with x worked out once however often F reads it
Once(x, F(_)) == CHOOSE y \in {F(v) : v \in {x}} : TRUE

\* the digits as a tuple, each worked out once
Digits(f) == SubSeq(f, 1, Wide)

\* digit i of x, 0 outside the digits kept
Digit(x, i) == IF i >= 1 /\ i <= Wide THEN x[i] ELSE 0

\* the number n < Limb
BNat(n) == Digits([i \in 1..Wide |-> IF i = 1 THEN n ELSE 0])

BZero == BNat(0)

\* the digits of a number given with digits outside 0..Limb-1
Carried(raw) ==
    Once(raw, LAMBDA w :
        LET c[i \in 0..Wide] == IF i = 0 THEN 0 ELSE (w[i] + c[i - 1]) \div Limb
        IN  Digits([i \in 1..Wide |-> (w[i] + c[i - 1]) % Limb]))

BAdd(a, b) ==
    Once(a, LAMBDA x : Once(b, LAMBDA y : Carried(Digits([i \in 1..Wide |-> x[i] + y[i]]))))

\* a - b for a >= b
BSub(a, b) ==
    Once(a, LAMBDA x : Once(b, LAMBDA y : Carried(Digits([i \in 1..Wide |-> x[i] - y[i]]))))

\* a - b * m for a >= b * m and 0 <= m <= Chunk
BSubTimes(a, b, m) ==
    Once(a, LAMBDA x : Once(b, LAMBDA y :
        Carried(Digits([i \in 1..Wide |-> x[i] - y[i] * m]))))

\* a * m for 0 <= m <= Chunk
BTimes(a, m) == Once(a, LAMBDA x : Carried(Digits([i \in 1..Wide |-> x[i] * m])))

BLess(a, b) ==
    Once(a, LAMBDA x : Once(b, LAMBDA y :
        \E i \in 1..Wide : x[i] < y[i] /\ \A j \in (i + 1)..Wide : x[j] = y[j]))

\* a \div 2
BHalf(a) ==
    Once(a, LAMBDA x :
        Digits([i \in 1..Wide |->
            x[i] \div 2 + (IF i < Wide THEN (x[i + 1] % 2) * (Limb \div 2) ELSE 0)]))

\* a * Limb^n
BShift(a, n) ==
    Once(a, LAMBDA x : Digits([i \in 1..Wide |-> IF i > n THEN x[i - n] ELSE 0]))

\* a * 2^n
BUp(a, n) ==
    Once(a, LAMBDA x :
        LET q == n \div LimbBits
            b == n % LimbBits
            keep == Pow2(LimbBits - b)
        IN  Digits([i \in 1..Wide |->
                (Digit(x, i - q) % keep) * Pow2(b) + Digit(x, i - q - 1) \div keep]))

\* a \div 2^n
BDown(a, n) ==
    Once(a, LAMBDA x :
        LET q == n \div LimbBits
            b == n % LimbBits
        IN  Digits([i \in 1..Wide |->
                Digit(x, i + q) \div Pow2(b)
                + (Digit(x, i + q + 1) % Pow2(b)) * Pow2(LimbBits - b)]))

\* a * 2^n, n of either sign
BScale(a, n) == IF n >= 0 THEN BUp(a, n) ELSE BDown(a, -n)

\* a \div 2^n as an integer, for a below 2^(n + 31)
TopInt(a, n) ==
    LET q == n \div LimbBits
        b == n % LimbBits
        high == Digit(a, q + 3)
    IN  Digit(a, q + 1) \div Pow2(b) + Digit(a, q + 2) * Pow2(LimbBits - b)
        + (IF high = 0 THEN 0 ELSE high * Pow2(2 * LimbBits - b))

\* the number whose digits in base Chunk are `chunks`, the first one the
\* highest, an even number of them, below `head`, which is worth Chunk^Len(chunks)
FromChunks(head, chunks) ==
    LET n == Len(chunks)
    IN  Digits([j \in 1..Wide |->
            IF 2 * j <= n THEN chunks[n - 2 * j + 1] * Chunk + chunks[n - 2 * j + 2]
            ELSE IF 2 * j = n + 2 THEN head
            ELSE 0])

\* 2^n
BPow2(n) ==
    Digits([i \in 1..Wide |->
               IF i = n \div LimbBits + 1 THEN Pow2(n % LimbBits) ELSE 0])

\* the number of bits of a
BitLen(a) ==
    Once(a, LAMBDA x :
        IF x = BZero THEN 0
        ELSE LET top == CHOOSE i \in 1..Wide :
                            x[i] > 0 /\ \A j \in (i + 1)..Wide : x[j] = 0
             IN  LimbBits * (top - 1) + FloorLog2(x[top]) + 1)

\* bit n of a, bit 0 the least
Bit(a, n) == (a[n \div LimbBits + 1] \div Pow2(n % LimbBits)) % 2

\* a % 2^d
LowBits(a, d) ==
    Once(a, LAMBDA x :
        Digits([i \in 1..Wide |->
            IF i <= d \div LimbBits THEN x[i]
            ELSE IF i = d \div LimbBits + 1 THEN x[i] % Pow2(d % LimbBits)
            ELSE 0]))

\* the double nearest to a number that lies in [a, a + 1): a itself when
\* `inexact` is false; a number halfway between two doubles goes to the one
\* whose last bit is 0
Rounded(a, inexact) ==
    Once(a, LAMBDA x :
        LET d == BitLen(x) - Significand
        IN  IF d <= 0 THEN x
            ELSE Once(LowBits(x, d), LAMBDA low :
                    LET half == BPow2(d - 1)
                        up == \/ BLess(half, low)
                              \/ low = half /\ (inexact \/ Bit(x, d) = 1)
                    IN  IF up THEN BAdd(BSub(x, low), BPow2(d)) ELSE BSub(x, low)))

\* x + y of two floats
FAdd(x, y) == Rounded(BAdd(x, y), FALSE)

\* x * 1.5
FTimes15(x) == Once(x, LAMBDA v : Rounded(BAdd(v, BHalf(v)), FALSE))

\* a \div den and a % den for 0 < den <= 1000
BDivSmall(a, den) ==
    Once(a, LAMBDA x :
        LET r[i \in 1..(Wide + 1)] ==
                IF i = Wide + 1 THEN 0 ELSE (r[i + 1] * Limb + x[i]) % den
        IN  [q |-> Digits([i \in 1..Wide |-> (r[i + 1] * Limb + x[i]) \div den]),
             rest |-> r[1]])

\* the float a decimal literal n/den denotes, n < Limb
FloatOf(n, den) ==
    Once(BDivSmall(BShift(BNat(n), UnitLimbs), den),
         LAMBDA d : Rounded(d.q, d.rest # 0))

\* the significand of a float as a number of exactly Significand bits
Mantissa(x) == Once(x, LAMBDA v : BScale(v, Significand - BitLen(v)))

\* the largest s with s * s <= n, for an integer n < 2^30: the bits of s
\* from bit `bit` down, given the bits above them
RECURSIVE ISqrtBits(_, _, _)
ISqrtBits(n, s, bit) ==
    IF bit < 0 THEN s
    ELSE LET t == s + Pow2(bit)
         IN  ISqrtBits(n, IF t * t <= n THEN t ELSE s, bit - 1)

\* ChunkBits more bits of a root: st.twice is 2 * Chunk times the root so
\* far, st.r what is left of the number after it.  Two digit positions of
\* the number, `next` its digit there, are brought down, and the largest d
\* with (twice + d) * d not above what was brought down is the root's digit
RootStep(st, next) ==
    Once(st, LAMBDA at :
        Once(BAdd(BShift(at.r, 1), BNat(next)), LAMBDA left :
            LET twice == at.twice
                shift == BitLen(twice) - LimbBits
                guess == TopInt(left, shift) \div (TopInt(twice, shift) + 1)
                low == IF guess >= Chunk THEN Chunk - 1 ELSE guess
                Taken(d) == BAdd(BTimes(twice, d), BNat(d * d))
                Found(d, rest) ==
                    [twice |-> Carried(Digits([i \in 1..Wide |->
                                  (twice[i] + (IF i = 1 THEN 2 * d ELSE 0)) * Chunk])),
                     r |-> rest, chunks |-> Append(at.chunks, d)]
            IN  Once(Taken(low), LAMBDA taken :
                    IF BLess(left, taken)
                    THEN Found(low - 1, BSub(left, Taken(low - 1)))
                    ELSE Once(BSub(left, taken), LAMBDA rest :
                         Once(BAdd(twice, BNat(2 * low + 1)), LAMBDA more :
                            IF low + 1 < Chunk /\ ~BLess(rest, more)
                            THEN Found(low + 1, BSub(rest, more))
                            ELSE Found(low, rest))))))

\* the root of the number n of 109 or 110 bits, digit position by digit
\* position from the top, and what is left of n
RECURSIVE RootSteps(_, _, _)
RootSteps(n, st, i) ==
    IF i = 0 THEN st
    ELSE Once(RootStep(st, n[i]), LAMBDA next : RootSteps(n, next, i - 1))

\* np.sqrt(x): the root of x * 2^shift to 55 bits, shift even, rounded by
\* what is left
FSqrt(x) ==
    Once(x, LAMBDA v :
        IF v = BZero THEN v
        ELSE LET bits == BitLen(v)
                 shift == IF (110 - bits) % 2 = 0 THEN 110 - bits ELSE 109 - bits
             IN  Once(BScale(v, shift), LAMBDA n :
                    LET top == n[5] + n[6] * Limb
                        s == ISqrtBits(top, 0, 14)
                    IN  Once(RootSteps(n, [twice |-> BTimes(BNat(2 * s), Chunk),
                                           r |-> BNat(top - s * s),
                                           chunks |-> <<>>], 4),
                             LAMBDA st :
                                Rounded(BScale(FromChunks(s, st.chunks),
                                               2 * LimbBits - shift \div 2),
                                        st.r # BZero))))

\* one digit of a quotient: st.r is the remainder so far, below den, whose
\* bits above bit 32 are top
DivStep(den, top, st) ==
    Once(st, LAMBDA at :
        Once(BTimes(at.r, Chunk), LAMBDA left :
            LET guess == TopInt(left, Significand - LimbBits - 1) \div (top + 1)
            IN  Once(BSubTimes(left, den, guess), LAMBDA rest :
                    IF BLess(rest, den)
                    THEN [r |-> rest, chunks |-> Append(at.chunks, guess)]
                    ELSE [r |-> BSub(rest, den),
                          chunks |-> Append(at.chunks, guess + 1)])))

\* n digits of a quotient
RECURSIVE DivSteps(_, _, _, _)
DivSteps(den, top, st, n) ==
    IF n = 0 THEN st
    ELSE Once(DivStep(den, top, st), LAMBDA next : DivSteps(den, top, next, n - 1))

\* the digits of a quotient after the point
QuotientChunks == 6

\* x / y of two floats, y > 0: the quotient of the significands to 60 bits
\* after the point, rounded by the remainder
FDiv(x, y) ==
    Once(x, LAMBDA v : Once(y, LAMBDA w :
        IF v = BZero THEN v
        ELSE Once(Mantissa(v), LAMBDA num : Once(Mantissa(w), LAMBDA den :
                LET first == IF BLess(num, den) THEN 0 ELSE 1
                    start == [r |-> IF first = 1 THEN BSub(num, den) ELSE num,
                              chunks |-> <<>>]
                    top == TopInt(den, Significand - LimbBits - 1)
                IN  Once(DivSteps(den, top, start, QuotientChunks), LAMBDA st :
                        Rounded(BScale(FromChunks(first, st.chunks),
                                       BitLen(v) - BitLen(w) + LimbBits * UnitLimbs
                                       - ChunkBits * QuotientChunks),
                                st.r # BZero))))))

\* the bits after the point in the working numbers of a logarithm
LogUnit == 100
\* the bits of the argument that one table of logarithms resolves
LogRadixBits == 5
LogRadix == 32
\* the last table is for the bits down to 2^-LogLevels
LogLevels == 45
\* the largest multiple one table holds
LogMultiples == 37

\* a number x in [1 + i/32, 1 + (i + 1)/32) times LogScalers[i + 1] / Chunk
\* is in [1, 1 + 1/28): the least integer not below Chunk * 32 / (32 + i)
LogScalers ==
    SubSeq([i \in 1..LogRadix |-> (LogRadix * Chunk + LogRadix + i - 2) \div (LogRadix + i - 1)],
           1, LogRadix)

\* log2(Chunk / LogScalers[i]) * 2^LogUnit rounded down
ScalerLogs ==
    <<
       <<0, 0, 0, 0, 0, 0>>,
       <<648172, 184885, 517744, 464061, 46504, 0>>,
       <<599465, 278082, 464235, 158726, 91342, 0>>,
       <<816954, 314080, 972395, 98058, 134317, 0>>,
       <<479492, 731443, 238142, 184049, 176887, 0>>,
       <<152080, 367666, 953932, 611288, 218981, 0>>,
       <<14341, 423611, 104935, 1042298, 258770, 0>>,
       <<838087, 739563, 861620, 461484, 297835, 0>>,
       <<1011438, 566791, 386474, 498263, 336089, 0>>,
       <<295001, 898720, 146048, 893335, 373443, 0>>,
       <<101685, 549154, 1030396, 834114, 409805, 0>>,
       <<776497, 614432, 1040556, 376135, 445079, 0>>,
       <<994546, 333428, 1007480, 79128, 481195, 0>>,
       <<605245, 147389, 1019172, 173080, 514038, 0>>,
       <<178751, 712743, 881534, 155194, 547610, 0>>,
       <<464352, 131297, 922379, 271574, 579775, 0>>,
       <<640555, 625184, 933249, 167324, 612639, 0>>,
       <<622791, 767066, 159638, 993405, 643969, 0>>,
       <<863938, 117431, 837738, 575883, 673655, 0>>,
       <<455055, 224864, 513947, 376860, 703935, 0>>,
       <<922407, 721362, 489956, 341678, 732434, 0>>,
       <<135781, 330302, 19473, 530326, 761480, 0>>,
       <<579395, 939845, 13652, 341296, 791095, 0>>,
       <<847046, 932644, 410167, 156749, 818761, 0>>,
       <<839020, 288123, 692873, 667541, 844358, 0>>,
       <<733863, 631781, 321364, 367333, 873025, 0>>,
       <<323361, 200423, 855512, 996442, 899565, 0>>,
       <<156221, 213578, 369886, 257664, 923857, 0>>,
       <<533522, 606225, 390030, 1018616, 948544, 0>>,
       <<831136, 417072, 678967, 295404, 973642, 0>>,
       <<877725, 514698, 350631, 1045148, 999162, 0>>,
       <<547357, 736769, 609526, 270893, 1022215, 0>> >>

\* -log2(1 - j / 2^s) * 2^LogUnit rounded down, for s = 10, 15, ... LogLevels
\* (a row each) and j = 1 to LogMultiples
FactorLogs ==
    <<
     <<
       <<295738, 415710, 186993, 43557, 1478, 0>>,
       <<911570, 78061, 471021, 554273, 2957, 0>>,
       <<25680, 785570, 501952, 486540, 4438, 0>>,
       <<588151, 683761, 688990, 891910, 5920, 0>>,
       <<816390, 435990, 139409, 724793, 7404, 0>>,
       <<53483, 166592, 888928, 1036757, 8889, 0>>,
       <<28083, 848769, 597923, 782231, 10376, 0>>,
       <<37976, 748451, 976462, 1012801, 11864, 0>>,
       <<27342, 611581, 480871, 682913, 13354, 0>>,
       <<740986, 881216, 641976, 844171, 14845, 0>>,
       <<121548, 452908, 859189, 451038, 16338, 0>>,
       <<20025, 193101, 534804, 555138, 17832, 0>>,
       <<10310, 821631, 159906, 110951, 19328, 0>>,
       <<424603, 495878, 303313, 170118, 20825, 0>>,
       <<609462, 587809, 600696, 735714, 22323, 0>>,
       <<885885, 890144, 841048, 762247, 23823, 0>>,
       <<852582, 98954, 1004760, 252810, 25325, 0>>,
       <<203311, 650889, 253306, 259082, 26828, 0>>,
       <<357362, 224208, 113435, 784173, 28332, 0>>,
       <<651088, 455531, 321506, 782628, 29838, 0>>,
       <<46351, 517970, 959486, 257577, 31346, 0>>,
       <<372008, 886370, 396828, 260737, 32855, 0>>,
       <<497974, 680804, 572582, 795255, 34365, 0>>,
       <<442501, 299504, 743361, 815714, 35877, 0>>,
       <<206363, 89505, 668692, 325282, 37391, 0>>,
       <<294496, 491973, 650836, 375712, 38906, 0>>,
       <<947840, 719310, 526233, 970191, 40422, 0>>,
       <<811559, 369948, 754297, 14763, 41941, 0>>,
       <<142579, 6993, 360686, 658363, 43460, 0>>,
       <<505609, 930129, 123656, 807054, 44981, 0>>,
       <<648172, 184885, 517744, 464061, 46504, 0>>,
       <<788464, 979681, 706218, 681196, 48028, 0>>,
       <<497170, 1018565, 679483, 413128, 49554, 0>>,
       <<629462, 958529, 247948, 711688, 51081, 0>>,
       <<553708, 760713, 132266, 531564, 52610, 0>>,
       <<729756, 997234, 956628, 924606, 54140, 0>>,
       <<636599, 1019022, 145120, 845525, 55672, 0>> >>,
     <<
       <<76273, 799793, 336734, 175055, 46, 0>>,
       <<78933, 752092, 54699, 351588, 92, 0>>,
       <<199343, 326424, 297032, 529598, 138, 0>>,
       <<332235, 682577, 109726, 709086, 184, 0>>,
       <<508318, 525980, 635937, 890051, 230, 0>>,
       <<455671, 303116, 921676, 23918, 277, 0>>,
       <<387130, 105478, 12963, 207840, 323, 0>>,
       <<916535, 719254, 101554, 393239, 369, 0>>,
       <<6727, 480711, 233488, 580116, 415, 0>>,
       <<580800, 520177, 503386, 768471, 461, 0>>,
       <<485117, 568856, 1005879, 958304, 507, 0>>,
       <<455668, 8506, 787031, 101040, 554, 0>>,
       <<727714, 1018280, 990064, 293830, 600, 0>>,
       <<968784, 187228, 661062, 488099, 646, 0>>,
       <<389341, 49743, 943264, 683846, 692, 0>>,
       <<128306, 698061, 882768, 881072, 738, 0>>,
       <<573431, 831950, 574258, 31201, 785, 0>>,
       <<956593, 905549, 112425, 231385, 831, 0>>,
       <<175458, 1031326, 640545, 433047, 877, 0>>,
       <<938713, 981185, 156175, 636189, 923, 0>>,
       <<457662, 187586, 851185, 840809, 969, 0>>,
       <<190097, 890375, 723147, 1046909, 1015, 0>>,
       <<33453, 797869, 915374, 205912, 1062, 0>>,
       <<35954, 427998, 474033, 414971, 1108, 0>>,
       <<188610, 1012265, 542451, 625509, 1154, 0>>,
       <<395228, 302554, 166815, 837527, 1200, 0>>,
       <<620496, 960850, 490468, 2448, 1247, 0>>,
       <<167574, 74592, 559615, 217425, 1293, 0>>,
       <<279538, 692119, 469040, 433882, 1339, 0>>,
       <<627532, 289450, 313541, 651819, 1385, 0>>,
       <<171407, 208580, 187921, 871236, 1431, 0>>,
       <<295738, 415710, 186993, 43557, 1478, 0>>,
       <<784063, 550940, 405579, 265934, 1524, 0>>,
       <<165717, 977958, 938509, 489791, 1570, 0>>,
       <<435282, 687997, 832047, 715129, 1616, 0>>,
       <<416070, 446683, 181040, 941948, 1662, 0>>,
       <<836311, 697992, 128920, 121671, 1709, 0>> >>,
     <<
       <<406101, 383286, 122204, 464200, 1, 0>>,
       <<840374, 12216, 708611, 928401, 2, 0>>,
       <<17983, 863779, 710646, 344028, 4, 0>>,
       <<487936, 720665, 128314, 808233, 5, 0>>,
       <<244510, 511305, 10193, 223863, 7, 0>>,
       <<67315, 115560, 356286, 688070, 8, 0>>,
       <<375604, 461876, 118019, 103703, 10, 0>>,
       <<179730, 381557, 343972, 567913, 11, 0>>,
       <<226907, 803066, 1034147, 1032124, 12, 0>>,
       <<904097, 557723, 91396, 447762, 14, 0>>,
       <<140888, 574011, 661449, 911976, 15, 0>>,
       <<749564, 731841, 647157, 327616, 17, 0>>,
       <<987953, 911137, 48523, 791834, 18, 0>>,
       <<850919, 991830, 962702, 207476, 20, 0>>,
       <<1021821, 853859, 243969, 671697, 21, 0>>,
       <<775396, 377173, 1038055, 87342, 23, 0>>,
       <<74944, 490305, 199234, 551566, 24, 0>>,
       <<620938, 24643, 873238, 1015790, 25, 0>>,
       <<608182, 957315, 962916, 431440, 27, 0>>,
       <<1017299, 22575, 468274, 895668, 28, 0>>,
       <<371886, 246144, 437888, 311321, 30, 0>>,
       <<1030004, 459444, 871762, 775551, 31, 0>>,
       <<795609, 542486, 721323, 191207, 33, 0>>,
       <<258610, 375287, 1035150, 655440, 34, 0>>,
       <<697762, 886448, 764669, 71099, 36, 0>>,
       <<934963, 907429, 958460, 535335, 37, 0>>,
       <<481024, 318274, 567950, 999573, 38, 0>>,
       <<584276, 47610, 641717, 415236, 40, 0>>,
       <<36299, 1024075, 131187, 879477, 41, 0>>,
       <<414843, 1030585, 84941, 295143, 43, 0>>,
       <<840976, 995795, 502981, 759386, 44, 0>>,
       <<76273, 799793, 336734, 175055, 46, 0>>,
       <<717155, 322672, 634779, 639301, 47, 0>>,
       <<806317, 493114, 348542, 54973, 49, 0>>,
       <<124215, 142656, 526603, 519222, 50, 0>>,
       <<189105, 199994, 120388, 983473, 51, 0>>,
       <<62769, 545259, 178476, 399149, 53, 0>> >>,
     <<
       <<484503, 435914, 243064, 47274, 0, 0>>,
       <<981964, 158597, 487606, 94548, 0, 0>>,
       <<792454, 216718, 733625, 141822, 0, 0>>,
       <<264626, 610369, 981121, 189096, 0, 0>>,
       <<795722, 291065, 181519, 236371, 0, 0>>,
       <<637260, 307476, 431970, 283645, 0, 0>>,
       <<137922, 659694, 683898, 330919, 0, 0>>,
       <<694973, 299234, 937304, 378193, 0, 0>>,
       <<559960, 274766, 143611, 425468, 0, 0>>,
       <<81589, 586382, 399971, 472742, 0, 0>>,
       <<657153, 185597, 657809, 520016, 0, 0>>,
       <<538222, 121081, 917124, 567290, 0, 0>>,
       <<73531, 392926, 129340, 614565, 0, 0>>,
       <<660396, 1001223, 391609, 661839, 0, 0>>,
       <<550415, 897490, 655356, 709113, 0, 0>>,
       <<92349, 81819, 920581, 756387, 0, 0>>,
       <<683539, 651453, 138706, 803662, 0, 0>>,
       <<575610, 509334, 406885, 850936, 0, 0>>,
       <<117346, 704130, 676541, 898210, 0, 0>>,
       <<706119, 187356, 947675, 945484, 0, 0>>,
       <<593576, 7682, 171710, 992759, 0, 0>>,
       <<128529, 165200, 445798, 1040033, 0, 0>>,
       <<708374, 660001, 721363, 38731, 1, 0>>,
       <<584787, 443603, 998406, 86005, 1, 0>>,
       <<106604, 564674, 228350, 133280, 1, 0>>,
       <<671246, 1023305, 508347, 180554, 1, 0>>,
       <<530416, 771014, 789822, 227828, 1, 0>>,
       <<32976, 856469, 24198, 275103, 1, 0>>,
       <<576374, 231185, 308628, 322377, 1, 0>>,
       <<412338, 992408, 594534, 369651, 1, 0>>,
       <<938332, 1043077, 881918, 416925, 1, 0>>,
       <<406101, 383286, 122204, 464200, 1, 0>>,
       <<213129, 61702, 412543, 511474, 1, 0>>,
       <<708328, 78417, 704359, 558748, 1, 0>>,
       <<143471, 433525, 997652, 606022, 1, 0>>,
       <<964641, 78540, 243847, 653297, 1, 0>>,
       <<375051, 62133, 540095, 700571, 1, 0>> >>,
     <<
       <<231719, 420707, 335253, 1477, 0, 0>>,
       <<880786, 257037, 670508, 2954, 0, 0>>,
       <<901578, 557567, 1005764, 4431, 0, 0>>,
       <<297050, 273721, 292446, 5909, 0, 0>>,
       <<118733, 454074, 627705, 7386, 0, 0>>,
       <<369581, 50050, 962966, 8863, 0, 0>>,
       <<3974, 110226, 249652, 10341, 0, 0>>,
       <<73441, 634601, 584915, 11818, 0, 0>>,
       <<580937, 574599, 920180, 13295, 0, 0>>,
       <<480841, 978797, 206870, 14773, 0, 0>>,
       <<824684, 798618, 542138, 16250, 0, 0>>,
       <<566844, 34063, 877408, 17727, 0, 0>>,
       <<758852, 782283, 164102, 19205, 0, 0>>,
       <<355087, 946127, 499374, 20682, 0, 0>>,
       <<407078, 525594, 834648, 22159, 0, 0>>,
       <<917782, 569260, 121347, 23637, 0, 0>>,
       <<841575, 28550, 456624, 25114, 0, 0>>,
       <<181414, 1000616, 791901, 26591, 0, 0>>,
       <<1037405, 339728, 78605, 28069, 0, 0>>,
       <<266774, 143041, 413886, 29546, 0, 0>>,
       <<1018203, 410552, 749168, 31023, 0, 0>>,
       <<148921, 93688, 35876, 32501, 0, 0>>,
       <<807609, 241022, 371161, 33978, 0, 0>>,
       <<900069, 852556, 706447, 35455, 0, 0>>,
       <<429257, 879714, 1041735, 36932, 0, 0>>,
       <<446704, 322495, 328449, 38410, 0, 0>>,
       <<955363, 229475, 663740, 39887, 0, 0>>,
       <<909613, 600655, 999032, 41364, 0, 0>>,
       <<312410, 387459, 285750, 42842, 0, 0>>,
       <<215283, 638462, 621045, 44319, 0, 0>>,
       <<621188, 305088, 956342, 45796, 0, 0>>,
       <<484503, 435914, 243064, 47274, 0, 0>>,
       <<856758, 1030939, 578363, 48751, 0, 0>>,
       <<692333, 1041588, 913664, 50228, 0, 0>>,
       <<1042758, 467860, 200391, 51706, 0, 0>>,
       <<862411, 358332, 535695, 53183, 0, 0>>,
       <<154248, 713004, 871000, 54660, 0, 0>> >>,
     <<
       <<676281, 678376, 174316, 46, 0, 0>>,
       <<639239, 309654, 348633, 92, 0, 0>>,
       <<937450, 990985, 522949, 138, 0, 0>>,
       <<522338, 625218, 697266, 184, 0, 0>>,
       <<442479, 260928, 871583, 230, 0, 0>>,
       <<697873, 946691, 1045899, 276, 0, 0>>,
       <<239944, 585356, 171640, 323, 0, 0>>,
       <<117269, 225498, 345957, 369, 0, 0>>,
       <<329847, 915693, 520273, 415, 0, 0>>,
       <<877678, 558789, 694590, 461, 0, 0>>,
       <<712187, 203363, 868907, 507, 0, 0>>,
       <<881950, 897990, 1043223, 553, 0, 0>>,
       <<338391, 545519, 168964, 600, 0, 0>>,
       <<130085, 194525, 343281, 646, 0, 0>>,
       <<257033, 893584, 517597, 692, 0, 0>>,
       <<719236, 545544, 691914, 738, 0, 0>>,
       <<468116, 198982, 866231, 784, 0, 0>>,
       <<552251, 902473, 1040547, 830, 0, 0>>,
       <<971640, 558865, 166288, 877, 0, 0>>,
       <<677707, 216735, 340605, 923, 0, 0>>,
       <<719029, 924658, 514921, 969, 0, 0>>,
       <<47030, 585483, 689238, 1015, 0, 0>>,
       <<758861, 247784, 863555, 1061, 0, 0>>,
       <<757370, 960139, 1037871, 1107, 0, 0>>,
       <<42559, 625396, 163612, 1154, 0, 0>>,
       <<711579, 292129, 337929, 1200, 0, 0>>,
       <<667277, 1008916, 512245, 1246, 0, 0>>,
       <<958231, 678604, 686562, 1292, 0, 0>>,
       <<535864, 349770, 860879, 1338, 0, 0>>,
       <<448753, 22413, 1035196, 1384, 0, 0>>,
       <<696896, 745109, 160936, 1431, 0, 0>>,
       <<231719, 420707, 335253, 1477, 0, 0>>,
       <<101798, 97782, 509570, 1523, 0, 0>>,
       <<307132, 824910, 683886, 1569, 0, 0>>,
       <<847722, 504939, 858203, 1615, 0, 0>>,
       <<674992, 186446, 1032520, 1661, 0, 0>>,
       <<837518, 918006, 158260, 1708, 0, 0>> >>,
     <<
       <<952507, 414392, 464199, 1, 0, 0>>,
       <<272061, 828787, 928398, 2, 0, 0>>,
       <<55815, 194607, 344022, 4, 0, 0>>,
       <<303769, 609004, 808221, 5, 0, 0>>,
       <<1015921, 1023402, 223844, 7, 0, 0>>,
       <<95121, 389227, 688044, 8, 0, 0>>,
       <<687097, 803628, 103667, 10, 0, 0>>,
       <<694696, 169455, 567867, 11, 0, 0>>,
       <<117918, 583860, 1032066, 12, 0, 0>>,
       <<5340, 998266, 447689, 14, 0, 0>>,
       <<356961, 364097, 911889, 15, 0, 0>>,
       <<124206, 778506, 327512, 17, 0, 0>>,
       <<355649, 144340, 791712, 18, 0, 0>>,
       <<2717, 558752, 207335, 20, 0, 0>>,
       <<113983, 973165, 671534, 21, 0, 0>>,
       <<689450, 339003, 87158, 23, 0, 0>>,
       <<680539, 753419, 551357, 24, 0, 0>>,
       <<87252, 119261, 1015557, 25, 0, 0>>,
       <<1006740, 533679, 431180, 27, 0, 0>>,
       <<293276, 948100, 895379, 28, 0, 0>>,
       <<44011, 313946, 311003, 30, 0, 0>>,
       <<258945, 728369, 775202, 31, 0, 0>>,
       <<938079, 94217, 190826, 33, 0, 0>>,
       <<1032837, 508643, 655025, 34, 0, 0>>,
       <<543217, 923071, 70648, 36, 0, 0>>,
       <<517797, 288924, 534848, 37, 0, 0>>,
       <<956577, 703354, 999047, 38, 0, 0>>,
       <<810980, 69210, 414671, 40, 0, 0>>,
       <<81006, 483644, 878870, 41, 0, 0>>,
       <<863807, 898078, 294493, 43, 0, 0>>,
       <<13656, 263939, 758693, 44, 0, 0>>,
       <<676281, 678376, 174316, 46, 0, 0>>,
       <<754529, 44239, 638516, 47, 0, 0>>,
       <<248400, 458680, 54139, 49, 0, 0>>,
       <<206470, 873122, 518338, 50, 0, 0>>,
       <<628740, 238989, 982538, 51, 0, 0>>,
       <<466634, 653434, 398161, 53, 0, 0>> >>,
     <<
       <<793299, 242325, 47274, 0, 0, 0>>,
       <<539500, 484651, 94548, 0, 0, 0>>,
       <<287178, 726977, 141822, 0, 0, 0>>,
       <<36333, 969303, 189096, 0, 0, 0>>,
       <<835542, 163052, 236371, 0, 0, 0>>,
       <<587652, 405378, 283645, 0, 0, 0>>,
       <<341239, 647704, 330919, 0, 0, 0>>,
       <<96304, 890030, 378193, 0, 0, 0>>,
       <<901422, 83779, 425468, 0, 0, 0>>,
       <<659441, 326105, 472742, 0, 0, 0>>,
       <<418937, 568431, 520016, 0, 0, 0>>,
       <<179911, 810757, 567290, 0, 0, 0>>,
       <<990939, 4506, 614565, 0, 0, 0>>,
       <<754867, 246832, 661839, 0, 0, 0>>,
       <<520273, 489158, 709113, 0, 0, 0>>,
       <<287156, 731484, 756387, 0, 0, 0>>,
       <<55517, 973810, 803661, 0, 0, 0>>,
       <<873930, 167559, 850936, 0, 0, 0>>,
       <<645246, 409885, 898210, 0, 0, 0>>,
       <<418038, 652211, 945484, 0, 0, 0>>,
       <<192308, 894537, 992758, 0, 0, 0>>,
       <<1016631, 88286, 1040033, 0, 0, 0>>,
       <<793855, 330612, 38731, 1, 0, 0>>,
       <<572557, 572938, 86005, 1, 0, 0>>,
       <<352736, 815264, 133279, 1, 0, 0>>,
       <<134393, 9014, 180554, 1, 0, 0>>,
       <<966102, 251339, 227828, 1, 0, 0>>,
       <<750713, 493665, 275102, 1, 0, 0>>,
       <<536802, 735991, 322376, 1, 0, 0>>,
       <<324367, 978317, 369650, 1, 0, 0>>,
       <<113410, 172067, 416925, 1, 0, 0>>,
       <<952507, 414392, 464199, 1, 0, 0>>,
       <<744504, 656718, 511473, 1, 0, 0>>,
       <<537979, 899044, 558747, 1, 0, 0>>,
       <<332931, 92794, 606022, 1, 0, 0>>,
       <<129361, 335120, 653296, 1, 0, 0>>,
       <<975844, 577445, 700570, 1, 0, 0>> >> >>

\* 1 / ln(2) * 2^InvLn2Bits rounded down
InvLn2Bits == 57
InvLn2 == <<24514, 969303, 189096, 0, 0, 0>>

\* digit c of a in base Chunk, digit 0 the least
ChunkOf(a, c) ==
    IF c % 2 = 0 THEN a[c \div 2 + 1] % Chunk ELSE a[c \div 2 + 1] \div Chunk

\* a * (b % Chunk^(c + 1)), digit of b by digit of b
RECURSIVE Product(_, _, _)
Product(a, b, c) ==
    IF c < 0 THEN BZero
    ELSE Once(Product(a, b, c - 1), LAMBDA low :
            BAdd(low, BUp(BTimes(a, ChunkOf(b, c)), ChunkBits * c)))

\* x * y of two floats: the product of the significands, rounded
FTimes(x, y) ==
    Once(x, LAMBDA v : Once(y, LAMBDA w :
        IF v = BZero \/ w = BZero THEN BZero
        ELSE Once(Once(Mantissa(v), LAMBDA a : Once(Mantissa(w), LAMBDA b :
                        Product(a, b, Significand \div ChunkBits))),
                  LAMBDA p :
                    LET shift == BitLen(v) + BitLen(w) - 2 * Significand
                                 - LimbBits * UnitLimbs
                    IN  IF shift >= 0 THEN Rounded(BUp(p, shift), FALSE)
                        ELSE Rounded(BDown(p, -shift), LowBits(p, -shift) # BZero))))

\* one table: st.r in [1, 1 + 1.2 / 2^(s - LogRadixBits)) is multiplied by
\* 1 - j / 2^s, with j the largest that leaves it at 1 or above as far as
\* the leading bits tell, and the logarithm of the factor goes to st.sum
LogStep(st, s) ==
    Once(st, LAMBDA at :
        LET over == TopInt(LowBits(at.r, LogUnit), LogUnit - s - ChunkBits)
            j == over \div (TopInt(at.r, LogUnit - ChunkBits) + 1)
        IN  IF j = 0 THEN at
            ELSE [r |-> BSub(at.r, BDown(BTimes(at.r, j), s)),
                  sum |-> BAdd(at.sum, FactorLogs[s \div LogRadixBits - 1][j])])

\* the tables for s, s + LogRadixBits, ... LogLevels in turn
RECURSIVE LogSteps(_, _)
LogSteps(st, s) ==
    IF s > LogLevels THEN st
    ELSE Once(LogStep(st, s), LAMBDA next : LogSteps(next, s + LogRadixBits))

\* log2(m) * 2^LogUnit for m in [1, 2) given as m * 2^LogUnit, within
\* 2^-89: m is scaled to r in [1, 1 + 1/28), r is brought to 1 + f with
\* f < 1.2 / 2^LogLevels by the factors of the tables, and log2(1 + f) is
\* f / ln(2) to that precision
LogFraction(m) ==
    Once(m, LAMBDA v :
        LET i == TopInt(v, LogUnit - LogRadixBits) - LogRadix + 1
            start == [r |-> BDown(BTimes(v, LogScalers[i]), ChunkBits), sum |-> BZero]
        IN  Once(LogSteps(start, 2 * LogRadixBits), LAMBDA st :
                Once(LowBits(st.r, LogUnit), LAMBDA f :
                    LET tail == BDown(Product(InvLn2, f, (LogUnit - LogLevels) \div ChunkBits),
                                      InvLn2Bits)
                    IN  BAdd(BAdd(st.sum, tail), ScalerLogs[i]))))

\* the float at or next below a number a
FloatBelow(a) ==
    Once(a, LAMBDA x :
        LET d == BitLen(x) - Significand
        IN  IF d <= 0 THEN x ELSE BSub(x, LowBits(x, d)))

\* the float next above a float f
FloatAbove(f) ==
    Once(f, LAMBDA x :
        BAdd(x, BPow2(IF BitLen(x) > Significand THEN BitLen(x) - Significand ELSE 0)))

\* a float below zero, by its size
Minus(size) == IF size = BZero THEN size ELSE <<"-", size>>
IsMinus(x) == Len(x) = 2
Size(x) == IF IsMinus(x) THEN x[2] ELSE x

\* -x
Negated(x) == IF IsMinus(x) THEN x[2] ELSE Minus(x)

\* x + y of two floats of either sign
FPlus(x, y) ==
    Once(x, LAMBDA a : Once(y, LAMBDA b :
        IF IsMinus(a) = IsMinus(b)
        THEN IF IsMinus(a) THEN Minus(FAdd(a[2], b[2])) ELSE FAdd(a, b)
        ELSE Once(Size(a), LAMBDA p : Once(Size(b), LAMBDA q :
                IF BLess(p, q)
                THEN Once(Rounded(BSub(q, p), FALSE),
                          LAMBDA d : IF IsMinus(b) THEN Minus(d) ELSE d)
                ELSE Once(Rounded(BSub(p, q), FALSE),
                          LAMBDA d : IF IsMinus(a) THEN Minus(d) ELSE d)))))

\* x * y of a float x >= 0 and a float y of either sign
FProduct(x, y) == IF IsMinus(y) THEN Minus(FTimes(x, y[2])) ELSE FTimes(x, y)

\* x / y of a float x of either sign and a float y > 0
FQuotient(x, y) == IF IsMinus(x) THEN Minus(FDiv(x[2], y)) ELSE FDiv(x, y)

\* the floats np.log2(x) may be for a float x > 0, the lower one first:
\* x = m * 2^e with m in [1, 2) and log2(x) = e + log2(m); the logarithm
\* itself twice when x is a power of two, otherwise the two floats around it.
\* For x whose logarithm is 0 or of a size in the range of the floats kept
\* here: x = 1, or x at least 2^-21 away from 1, as the weights of a map
\* are when two or more of them are 2^-21 or more.
Log2Around(x) ==
    Once(x, LAMBDA v :
        LET e == BitLen(v) - 1 - LimbBits * UnitLimbs
        IN  Once(LogFraction(BScale(v, LogUnit + 1 - BitLen(v))), LAMBDA fraction :
                LET whole == BUp(BNat(IF e >= 0 THEN e ELSE -e), LogUnit)
                    log == IF e >= 0 THEN BAdd(whole, fraction)
                           ELSE BSub(whole, fraction)
                IN  Once(FloatBelow(BDown(log, LogUnit - LimbBits * UnitLimbs)),
                         LAMBDA below :
                            IF fraction = BZero
                            THEN IF e >= 0 THEN <<below, below>>
                                 ELSE <<Minus(below), Minus(below)>>
                            ELSE IF e >= 0 THEN <<below, FloatAbove(below)>>
                            ELSE <<Minus(FloatAbove(below)), Minus(below)>>)))

\* np.log2 on the numbers `asked`, in every way that agrees with what it
\* has `given` before: a function from each number to its logarithm
Libraries(asked, given) ==
    Once([x \in asked |-> IF x \in DOMAIN given THEN <<given[x], given[x]>>
                          ELSE Log2Around(x)] @@ <<>>,
         LAMBDA around :
            {[x \in asked |-> around[x][side[x]]] @@ <<>> : side \in [asked -> 1..2]})

----------------------------------------------------------------------------
(* Dicts in insertion order *)

Keys(d) == {d[i].k : i \in 1..Len(d)}

HasKey(d, key) == \E i \in 1..Len(d) : d[i].k = key

\* d[key] of a defaultdict(float) read without inserting / dict.get(key, 0)
Get(d, key) ==
    IF HasKey(d, key)
    THEN d[CHOOSE i \in 1..Len(d) : d[i].k = key].v
    ELSE 0

\* the float under a key, 0.0 when the key is missing
FloatGet(d, key) ==
    IF HasKey(d, key)
    THEN d[CHOOSE i \in 1..Len(d) : d[i].k = key].f
    ELSE BZero

\* d[key] += amount on a defaultdict(float): a new key goes last, and the
\* float under the key is the float sum
AddScore(d, key, amount) ==
    Once(d, LAMBDA dict : Once(amount, LAMBDA x :
        IF HasKey(dict, key)
        THEN [i \in 1..Len(dict) |->
                IF dict[i].k = key
                THEN [k |-> key, v |-> dict[i].v + x.v, f |-> FAdd(dict[i].f, x.f)]
                ELSE dict[i]] \o <<>>
        ELSE Append(dict, [k |-> key, v |-> x.v, f |-> x.f])))

\* sum(d.values())
RECURSIVE SumValues(_)
SumValues(d) == IF d = <<>> THEN 0 ELSE Head(d).v + SumValues(Tail(d))

\* sum(d.values()) of floats: ((0 + d1) + d2) + ...
RECURSIVE FloatSum(_)
FloatSum(d) ==
    IF d = <<>> THEN BZero
    ELSE Once(FloatSum(SubSeq(d, 1, Len(d) - 1)), LAMBDA rest : FAdd(rest, d[Len(d)].f))

----------------------------------------------------------------------------
(* Numbers of analyzer.py *)

\* 1.5, the score of a direct match
W_exact == 150
\* 0.8, the score when the keyword is inside the word
W_fuzzy_contains == 80
\* 0.6, the score when the word is inside the keyword
W_fuzzy_contained == 60
\* 0.4, the score of one semantic-rule match
W_semantic == 40
\* `len(keyword) >= 2`
MinFuzzyKeywordLen == 2
\* `len(word) <= len(keyword) + 2`
FuzzyLenTolerance == 2
\* `total_matches < 2`, in hundredths
SparseMatches == 200
\* `subjectivity > 0.3`, in tenths
SubjectiveAbove == 3
\* `polarity > 0.2`, `polarity < -0.2`, in tenths
PolarAbove == 2
\* `abs(polarity) <= 0.1`, in tenths
NeutralUpTo == 1
\* `subjectivity > 0.5`, in tenths
VerySubjectiveAbove == 5
\* `polarity * 1.5` for polarity in tenths, in hundredths
PolarMajor == 15
\* `polarity * 1.0` for polarity in tenths, in hundredths
PolarMinor == 10
\* 0.3 added to 思念, and to 平静 by the zero-sum rule of a subjective text
W_neutral_major == 30
\* 0.2 added to 平静
W_neutral_minor == 20
\* 0.1 added to 平静 by the zero-sum rule
W_floor == 10
\* `len(word.strip()) > 1`
MinWordLen == 2

\* one unit of weight: the weight 1.0
WScale == 10000
\* the weight units in one hundredth, the last digit `:.2f` prints
Hundredth == 100

\* the floats of the literals 0.01 to 1.5, by their hundredths
LiteralFloats == SubSeq([v \in 1..W_exact |-> FloatOf(v, 100)], 1, W_exact)

\* a literal of the code, v hundredths: the number and the float it denotes
Literal(v) == [v |-> v, f |-> LiteralFloats[v]]

\* the float of a polarity of v tenths, v >= 0
PolarityFloat(v) == FloatOf(v, 10)

\* `polarity * 1.5` and `polarity * 1.0` for a polarity in tenths: the
\* product in hundredths and the float it rounds to
Times(polarity, factor) ==
    [v |-> polarity * factor,
     f |-> IF factor = PolarMajor THEN FTimes15(PolarityFloat(polarity))
           ELSE PolarityFloat(polarity)]

\* the float 1.0
FloatOne == BShift(BNat(1), UnitLimbs)

\* a float weight in the units of WScale, rounded down
Units(f) == TopInt(BTimes(BTimes(f, Hundredth), WScale \div Hundredth),
                   LimbBits * UnitLimbs)

\* an entry of the weight map: the float f the code holds, and v its units
Weighted(emotion, f) == Once(f, LAMBDA x : [k |-> emotion, v |-> Units(x), f |-> x])

----------------------------------------------------------------------------
(* EmotionAnalyzer.__init__ and _build_emotion_dict *)

\* every keyword of a lexicon
AllKeywords(lexicon) ==
    UNION {{lexicon[i].keywords[j] : j \in 1..Len(lexicon[i].keywords)} :
           i \in 1..Len(lexicon)}

\* self.emotion_dict[keyword] = emotion, for each emotion and keyword in order:
\* a keyword listed under several emotions keeps the last one
build_emotion_dict(lexicon) ==
    [kw \in AllKeywords(lexicon) |->
        LET holders == {i \in 1..Len(lexicon) :
                          \E j \in 1..Len(lexicon[i].keywords) :
                              lexicon[i].keywords[j] = kw}
            last == CHOOSE i \in holders : \A h \in holders : h <= i
        IN  lexicon[last].emotion]

----------------------------------------------------------------------------
(* preprocess_text *)

\* re.sub(r'[^一-龥a-zA-Z0-9\s]', '', text)
CleanText(text) == SelectSeq(text, LAMBDA c : c \in WordChars \cup SpaceChars)

\* What jieba.cut may return for a text: consecutive non-empty pieces that
\* make up the text.  jieba yields each whitespace character as a piece of
\* its own; how it segments a run of word characters depends on its
\* dictionary, so every segmentation of a run is allowed.
RECURSIVE Cuts(_)
Cuts(text) ==
    IF text = <<>> THEN {<<>>}
    ELSE IF Head(text) \in SpaceChars
    THEN {<<SubSeq(text, 1, 1)>> \o rest : rest \in Cuts(Tail(text))}
    ELSE UNION {{<<SubSeq(text, 1, n)>> \o rest :
                    rest \in Cuts(SubSeq(text, n + 1, Len(text)))} :
                n \in {m \in 1..Len(text) :
                         \A i \in 1..m : text[i] \notin SpaceChars}}

\* the filter keeps every word that is not empty, one-character words too
RECURSIVE FilterWords_keepShort(_)
FilterWords_keepShort(words) ==
    IF words = <<>> THEN <<>>
    ELSE LET word == Strip(Head(words))
         IN  IF word # <<>> /\ word \notin stopwords
             THEN <<word>> \o FilterWords_keepShort(Tail(words))
             ELSE FilterWords_keepShort(Tail(words))

\* the list comprehension that strips and filters jieba's words
RECURSIVE FilterWords(_)
FilterWords(words) ==
    IF words = <<>> THEN <<>>
    ELSE LET word == Strip(Head(words))
         IN  IF word # <<>> /\ Len(word) >= MinWordLen /\ word \notin stopwords
             THEN <<word>> \o FilterWords(Tail(words))
             ELSE FilterWords(Tail(words))

\* preprocess_text, given what jieba.cut returned for the cleaned text
preprocess_text(cut) == FilterWords(cut)

----------------------------------------------------------------------------
(* calculate_emotion_weights: the passes *)

\* sum of the field v, and of the field n, of a sequence of records
RECURSIVE SumV(_)
SumV(seq) == IF seq = <<>> THEN 0 ELSE Head(seq).v + SumV(Tail(seq))

RECURSIVE SumN(_)
SumN(seq) == IF seq = <<>> THEN 0 ELSE Head(seq).n + SumN(Tail(seq))

\* `emotion_scores[emotion] += score` for each [k, v, f] of `more`, in order
RECURSIVE MergeScores(_, _)
MergeScores(scores, more) ==
    IF more = <<>> THEN scores
    ELSE Once(AddScore(scores, more[1].k, [v |-> more[1].v, f |-> more[1].f]),
              LAMBDA next : MergeScores(next, Tail(more)))

\* s1 \o s2 \o ... for a sequence of sequences
RECURSIVE Concat(_)
Concat(seqs) == IF seqs = <<>> THEN <<>> ELSE Head(seqs) \o Concat(Tail(seqs))

\* one `emotion_scores[emotion] += score` of a pass that counts one match
Addition(emotion, score) ==
    [k |-> emotion, v |-> score, f |-> Literal(score).f, n |-> 1]

\* pass 1, the body of `for word in words`: what one word adds, as a list of
\* at most one [k, v, f, n] (emotion, score, its float, matches)
DirectWord(word) ==
    IF word \in DOMAIN emotion_dict
    THEN << Addition(emotion_dict[word], W_exact) >>
    ELSE <<>>

\* pass 1, direct matches: the additions to emotion_scores in the order made
DirectPass(words) == Concat([i \in 1..Len(words) |-> DirectWord(words[i])])

\* the keyword is inside a longer word, which is not much longer
FuzzyContains_proper(word, keyword) ==
    /\ IsSubstring(keyword, word)
    /\ Len(word) > Len(keyword)
    /\ Len(word) <= Len(keyword) + FuzzyLenTolerance

\* the keyword is inside the word, which is not much longer
FuzzyContains(word, keyword) ==
    IsSubstring(keyword, word) /\ Len(word) <= Len(keyword) + FuzzyLenTolerance

\* the word is inside the keyword, however long the keyword is
FuzzyContained_anyLength(word, keyword) == IsSubstring(word, keyword)

\* the word is inside the keyword, which is not much longer
FuzzyContained(word, keyword) ==
    IsSubstring(word, keyword) /\ Len(keyword) <= Len(word) + FuzzyLenTolerance

\* what one (word, keyword) pair adds in pass 2: 0 when it does not fire
FuzzyScore(word, keyword) ==
    IF Len(keyword) >= MinFuzzyKeywordLen
    THEN IF FuzzyContains(word, keyword) THEN W_fuzzy_contains
         ELSE IF FuzzyContained(word, keyword) THEN W_fuzzy_contained
         ELSE 0
    ELSE 0

\* pass 2, `for keyword in keywords`: what one word adds to one emotion; every
\* keyword that fires adds its score and counts one fuzzy match, in the
\* order of the keywords
FuzzyKeywords(word, emotion, keywords) ==
    LET fired == SelectSeq([j \in 1..Len(keywords) |-> FuzzyScore(word, keywords[j])],
                           LAMBDA score : score > 0)
    IN  [j \in 1..Len(fired) |-> Addition(emotion, fired[j])]

\* pass 2, `for emotion, keywords in self.emotion_keywords.items()`: what one
\* word adds, emotion by emotion in the lexicon's order
FuzzyEntries(word) ==
    Concat([i \in 1..Len(emotion_keywords) |->
               FuzzyKeywords(word, emotion_keywords[i].emotion,
                             emotion_keywords[i].keywords)])

\* pass 2, fuzzy matches: the additions to emotion_scores in the order made
FuzzyPass(words) == Concat([i \in 1..Len(words) |-> FuzzyEntries(words[i])])

----------------------------------------------------------------------------
(* _semantic_emotion_analysis *)

semantic_rules == <<
    \* 思念: 过去, 从前, 以前, 当年, 那时, 曾经, 记得, 还记得
    [emotion |-> SiNian, keywords |-> <<
        <<"U8FC7", "U53BB">>,
        <<"U4ECE", "U524D">>,
        <<"U4EE5", "U524D">>,
        <<"U5F53", "U5E74">>,
        <<"U90A3", "U65F6">>,
        <<"U66FE", "U7ECF">>,
        <<"U8BB0", "U5F97">>,
        <<"U8FD8", "U8BB0", "U5F97">>
    >>],
    \* 失落: 不再, 失去, 没有了, 结束, 完了, 破碎, 散了
    [emotion |-> ShiLuo, keywords |-> <<
        <<"U4E0D", "U518D">>,
        <<"U5931", "U53BB">>,
        <<"U6CA1", "U6709", "U4E86">>,
        <<"U7ED3", "U675F">>,
        <<"U5B8C", "U4E86">>,
        <<"U7834", "U788E">>,
        <<"U6563", "U4E86">>
    >>],
    \* 期待: 未来, 明天, 将来, 希冀, 但愿, 如果, 要是
    [emotion |-> QiDai, keywords |-> <<
        <<"U672A", "U6765">>,
        <<"U660E", "U5929">>,
        <<"U5C06", "U6765">>,
        <<"U5E0C", "U5180">>,
        <<"U4F46", "U613F">>,
        <<"U5982", "U679C">>,
        <<"U8981", "U662F">>
    >>],
    \* 无助: 不知道, 怎么办, 不懂, 不会, 不能, 无法
    [emotion |-> WuZhu, keywords |-> <<
        <<"U4E0D", "U77E5", "U9053">>,
        <<"U600E", "U4E48", "U529E">>,
        <<"U4E0D", "U61C2">>,
        <<"U4E0D", "U4F1A">>,
        <<"U4E0D", "U80FD">>,
        <<"U65E0", "U6CD5">>
    >>],
    \* 温暖: 家, 妈妈, 爸爸, 朋友, 陪伴, 一起, 拥抱
    [emotion |-> WenNuan, keywords |-> <<
        <<"U5BB6">>,
        <<"U5988", "U5988">>,
        <<"U7238", "U7238">>,
        <<"U670B", "U53CB">>,
        <<"U966A", "U4F34">>,
        <<"U4E00", "U8D77">>,
        <<"U62E5", "U62B1">>
    >>],
    \* 忧伤: 眼泪, 哭, 痛, 伤, 苦, 难受, 心碎
    [emotion |-> YouShang, keywords |-> <<
        <<"U773C", "U6CEA">>,
        <<"U54ED">>,
        <<"U75DB">>,
        <<"U4F24">>,
        <<"U82E6">>,
        <<"U96BE", "U53D7">>,
        <<"U5FC3", "U788E">>
    >>],
    \* 喜悦: 笑, 哈哈, 开心, 棒, 好, 赞, 太好了
    [emotion |-> XiYue, keywords |-> <<
        <<"U7B11">>,
        <<"U54C8", "U54C8">>,
        <<"U5F00", "U5FC3">>,
        <<"U68D2">>,
        <<"U597D">>,
        <<"U8D5E">>,
        <<"U592A", "U597D", "U4E86">>
    >>],
    \* 平静: 静, 安, 稳, 缓, 慢, 轻, 淡
    [emotion |-> PingJing, keywords |-> <<
        <<"U9759">>,
        <<"U5B89">>,
        <<"U7A33">>,
        <<"U7F13">>,
        <<"U6162">>,
        <<"U8F7B">>,
        <<"U6DE1">>
    >>]
>>

\* only `semantic_word in word`
SemanticHit_inWord(word, semantic_word) == IsSubstring(semantic_word, word)

\* `semantic_word in word or word in semantic_word`
SemanticHit(word, semantic_word) ==
    IsSubstring(semantic_word, word) \/ IsSubstring(word, semantic_word)

\* `for semantic_word in semantic_words`: what one word adds to one emotion;
\* every semantic word that matches adds 0.4
SemanticWords(word, emotion, semantic_words) ==
    LET hits == SelectSeq(semantic_words,
                          LAMBDA semantic_word : SemanticHit(word, semantic_word))
    IN  [j \in 1..Len(hits) |-> Addition(emotion, W_semantic)]

\* `for emotion, semantic_words in semantic_rules.items()`: what one word
\* adds, emotion by emotion in the order of the rules
SemanticRules(word) ==
    Concat([i \in 1..Len(semantic_rules) |->
               SemanticWords(word, semantic_rules[i].emotion,
                             semantic_rules[i].keywords)])

\* the additions to semantic_scores in the order made
semantic_emotion_analysis(words) ==
    MergeScores(<<>>, Concat([i \in 1..Len(words) |-> SemanticRules(words[i])]))

----------------------------------------------------------------------------
(* calculate_emotion_weights: the polarity scorer and the normalisation *)

\* What TextBlob(text).sentiment can do: raise, or return a polarity in
\* [-1, 1] and a subjectivity in [0, 1] (in tenths).
Polarities == {-3, -2, 0, 1, 2, 3}
Subjectivities == {3, 4, 5, 6}
Raised == [raised |-> TRUE, polarity |-> 0, subjectivity |-> 0]
Sentiments ==
    {Raised} \cup
    {[raised |-> FALSE, polarity |-> p, subjectivity |-> s] :
        p \in Polarities, s \in Subjectivities}

Abs(x) == IF x < 0 THEN -x ELSE x

\* `direct_matches + fuzzy_matches + sum(semantic_matches.values())`, in hundredths
TotalMatches(direct_matches, fuzzy_matches, semantic_matches) ==
    100 * (direct_matches + fuzzy_matches) + SumValues(semantic_matches)

\* a negative polarity scores 无助 in place of 失落
PolarityFallback_helpless(scores, total_matches, polarity, subjectivity) ==
    IF total_matches < SparseMatches /\ subjectivity > SubjectiveAbove
    THEN IF polarity > PolarAbove
         THEN AddScore(AddScore(scores, XiYue, Times(polarity, PolarMajor)),
                       WenNuan, Times(polarity, PolarMinor))
         ELSE IF polarity < -PolarAbove
         THEN AddScore(AddScore(scores, YouShang, Times(Abs(polarity), PolarMajor)),
                       WuZhu, Times(Abs(polarity), PolarMinor))
         ELSE IF Abs(polarity) <= NeutralUpTo /\ subjectivity > VerySubjectiveAbove
         THEN AddScore(AddScore(scores, SiNian, Literal(W_neutral_major)),
                       PingJing, Literal(W_neutral_minor))
         ELSE scores
    ELSE scores

\* the polarity branches apply however many matches the passes found
PolarityFallback_always(scores, total_matches, polarity, subjectivity) ==
    IF subjectivity > SubjectiveAbove
    THEN IF polarity > PolarAbove
         THEN AddScore(AddScore(scores, XiYue, Times(polarity, PolarMajor)),
                       WenNuan, Times(polarity, PolarMinor))
         ELSE IF polarity < -PolarAbove
         THEN AddScore(AddScore(scores, YouShang, Times(Abs(polarity), PolarMajor)),
                       ShiLuo, Times(Abs(polarity), PolarMinor))
         ELSE IF Abs(polarity) <= NeutralUpTo /\ subjectivity > VerySubjectiveAbove
         THEN AddScore(AddScore(scores, SiNian, Literal(W_neutral_major)),
                       PingJing, Literal(W_neutral_minor))
         ELSE scores
    ELSE scores

\* the polarity branches apply whatever the subjectivity is
PolarityFallback_anySubjectivity(scores, total_matches, polarity, subjectivity) ==
    IF total_matches < SparseMatches
    THEN IF polarity > PolarAbove
         THEN AddScore(AddScore(scores, XiYue, Times(polarity, PolarMajor)),
                       WenNuan, Times(polarity, PolarMinor))
         ELSE IF polarity < -PolarAbove
         THEN AddScore(AddScore(scores, YouShang, Times(Abs(polarity), PolarMajor)),
                       ShiLuo, Times(Abs(polarity), PolarMinor))
         ELSE IF Abs(polarity) <= NeutralUpTo /\ subjectivity > VerySubjectiveAbove
         THEN AddScore(AddScore(scores, SiNian, Literal(W_neutral_major)),
                       PingJing, Literal(W_neutral_minor))
         ELSE scores
    ELSE scores

\* a polarity of exactly 0.2 or -0.2 already counts as polar
PolarityFallback_inclusive(scores, total_matches, polarity, subjectivity) ==
    IF total_matches < SparseMatches /\ subjectivity > SubjectiveAbove
    THEN IF polarity >= PolarAbove
         THEN AddScore(AddScore(scores, XiYue, Times(polarity, PolarMajor)),
                       WenNuan, Times(polarity, PolarMinor))
         ELSE IF polarity <= -PolarAbove
         THEN AddScore(AddScore(scores, YouShang, Times(Abs(polarity), PolarMajor)),
                       ShiLuo, Times(Abs(polarity), PolarMinor))
         ELSE IF Abs(polarity) <= NeutralUpTo /\ subjectivity > VerySubjectiveAbove
         THEN AddScore(AddScore(scores, SiNian, Literal(W_neutral_major)),
                       PingJing, Literal(W_neutral_minor))
         ELSE scores
    ELSE scores

\* the branches under `if total_matches < 2 and subjectivity > 0.3`
PolarityFallback(scores, total_matches, polarity, subjectivity) ==
    IF total_matches < SparseMatches /\ subjectivity > SubjectiveAbove
    THEN IF polarity > PolarAbove
         THEN AddScore(AddScore(scores, XiYue, Times(polarity, PolarMajor)),
                       WenNuan, Times(polarity, PolarMinor))
         ELSE IF polarity < -PolarAbove
         THEN AddScore(AddScore(scores, YouShang, Times(Abs(polarity), PolarMajor)),
                       ShiLuo, Times(Abs(polarity), PolarMinor))
         ELSE IF Abs(polarity) <= NeutralUpTo /\ subjectivity > VerySubjectiveAbove
         THEN AddScore(AddScore(scores, SiNian, Literal(W_neutral_major)),
                       PingJing, Literal(W_neutral_minor))
         ELSE scores
    ELSE scores

\* the zero-sum rule of the try block adds nothing
ZeroSumGuard_off(scores, subjectivity) == scores

\* `if sum(emotion_scores.values()) == 0` inside the try block
ZeroSumGuard(scores, subjectivity) ==
    IF SumValues(scores) = 0
    THEN IF subjectivity > SubjectiveAbove
         THEN AddScore(scores, PingJing, Literal(W_neutral_major))
         ELSE AddScore(scores, PingJing, Literal(W_floor))
    ELSE scores

\* the except block leaves an all-zero accumulator as it is
ScorerFailed_noFloor(scores) == scores

\* the except block starts the accumulator afresh
ScorerFailed_reset(scores) == AddScore(<<>>, PingJing, Literal(W_floor))

\* the except block
ScorerFailed(scores) ==
    IF SumValues(scores) = 0 THEN AddScore(scores, PingJing, Literal(W_floor)) ELSE scores

\* the try/except of calculate_emotion_weights
PolarityStep(scores, total_matches, sentiment) ==
    IF sentiment.raised
    THEN ScorerFailed(scores)
    ELSE ZeroSumGuard(
            PolarityFallback(scores, total_matches,
                             sentiment.polarity, sentiment.subjectivity),
            sentiment.subjectivity)

\* `smoothed_scores[emotion] = np.sqrt(score)` for the scores above zero
Smooth(scores) ==
    Once(SelectSeq(scores, LAMBDA c : c.v > 0), LAMBDA positive :
        [i \in 1..Len(positive) |->
            [k |-> positive[i].k, f |-> FSqrt(positive[i].f)]] \o <<>>)

\* the smoothed score is returned without the division by the smoothed total
Ratio_undivided(score, smoothed_total) == score

\* `score / smoothed_total`
Ratio(score, smoothed_total) == FDiv(score, smoothed_total)

\* dict(emotion_scores) as a weight map
Unsmoothed(scores) ==
    [i \in 1..Len(scores) |-> Weighted(scores[i].k, scores[i].f)] \o <<>>

\* lines 136-154: smoothing and normalisation
Normalize(scores) ==
    IF SumValues(scores) > 0
    THEN Once(Smooth(scores), LAMBDA smoothed_scores :
            Once(FloatSum(smoothed_scores), LAMBDA smoothed_total :
                IF smoothed_total # BZero
                THEN [i \in 1..Len(smoothed_scores) |->
                        Weighted(smoothed_scores[i].k,
                                 Ratio(smoothed_scores[i].f, smoothed_total))] \o <<>>
                ELSE Unsmoothed(scores)))
    ELSE Unsmoothed(scores)

\* emotion_scores of calculate_emotion_weights when the try/except is left,
\* given what the scorer does
EmotionScores(words, sentiment) ==
    LET direct == DirectPass(words)
        fuzzy == FuzzyPass(words)
        semantic_matches == semantic_emotion_analysis(words)
        emotion_scores ==
            MergeScores(MergeScores(MergeScores(<<>>, direct), fuzzy),
                        semantic_matches)
        total_matches == TotalMatches(SumN(direct), SumN(fuzzy), semantic_matches)
    IN  PolarityStep(emotion_scores, total_matches, sentiment)

\* calculate_emotion_weights, given what the scorer does
calculate_emotion_weights(words, sentiment) ==
    IF Len(words) = 0 THEN <<>>
    ELSE Normalize(EmotionScores(words, sentiment))

----------------------------------------------------------------------------
(* extract_emotion_keywords *)

\* the list under an emotion, [] when the emotion has none yet
Listed(d, emotion) ==
    IF \E i \in 1..Len(d) : d[i].emotion = emotion
    THEN d[CHOOSE i \in 1..Len(d) : d[i].emotion = emotion].keywords
    ELSE <<>>

InList(x, list) == \E i \in 1..Len(list) : list[i] = x

\* `d[emotion].append(word)` on a defaultdict(list)
AppendWord(d, emotion, word) ==
    IF \E i \in 1..Len(d) : d[i].emotion = emotion
    THEN [i \in 1..Len(d) |->
            IF d[i].emotion = emotion
            THEN [emotion |-> emotion, keywords |-> Append(d[i].keywords, word)]
            ELSE d[i]]
    ELSE Append(d, [emotion |-> emotion, keywords |-> <<word>>])

\* `if word in self.emotion_dict: ... append(word)`
ExtractDirect(word, d) ==
    IF word \in DOMAIN emotion_dict THEN AppendWord(d, emotion_dict[word], word) ELSE d

\* only `keyword in word`
ExtractHit_containsOnly(word, keyword) == IsSubstring(keyword, word)

\* `keyword in word or word in keyword`
ExtractHit(word, keyword) == IsSubstring(keyword, word) \/ IsSubstring(word, keyword)

\* the emotions some keyword of which matches the word, in the lexicon's order
ExtractEmotions(word) ==
    LET hit == SelectSeq([i \in 1..Len(emotion_keywords) |-> i],
                         LAMBDA i : \E j \in 1..Len(emotion_keywords[i].keywords) :
                                      ExtractHit(word, emotion_keywords[i].keywords[j]))
    IN  [n \in 1..Len(hit) |-> emotion_keywords[hit[n]].emotion]

\* `if word not in emotion_keywords[emotion]: emotion_keywords[emotion].append(word)`
\* for each emotion with a matching keyword
RECURSIVE ExtractFuzzy(_, _, _)
ExtractFuzzy(word, emotions, d) ==
    IF emotions = <<>> THEN d
    ELSE ExtractFuzzy(word, Tail(emotions),
            IF ~InList(word, Listed(d, Head(emotions)))
            THEN AppendWord(d, Head(emotions), word)
            ELSE d)

\* `for word in words`
RECURSIVE ExtractLoop(_, _)
ExtractLoop(words, d) ==
    IF words = <<>> THEN d
    ELSE ExtractLoop(Tail(words),
            ExtractFuzzy(Head(words), ExtractEmotions(Head(words)),
                         ExtractDirect(Head(words), d)))

extract_emotion_keywords(words) == ExtractLoop(words, <<>>)

----------------------------------------------------------------------------
(* dominant emotion and diversity *)

\* the items whose weight no other weight is above
Largest(emotion_weights) ==
    Once(emotion_weights, LAMBDA weights :
        {i \in 1..Len(weights) :
            \A j \in 1..Len(weights) : ~BLess(weights[i].f, weights[j].f)})

\* the last of several largest items wins
Dominant_last(emotion_weights) ==
    IF emotion_weights = <<>> THEN None
    ELSE Once(Largest(emotion_weights), LAMBDA largest :
            emotion_weights[CHOOSE i \in largest : \A j \in largest : j <= i].k)

\* `max(emotion_weights.items(), key=lambda x: x[1])[0] if emotion_weights else None`
\* max compares the floats and keeps the first of several largest items
Dominant(emotion_weights) ==
    IF emotion_weights = <<>> THEN None
    ELSE Once(Largest(emotion_weights), LAMBDA largest :
            emotion_weights[CHOOSE i \in largest : \A j \in largest : i <= j].k)

\* `sum(w * np.log2(w) for w in weights if w > 0)`: the sum from 0 on, term
\* by term in the order of the weights, with np.log2 answering as `log2`
RECURSIVE Sum(_, _)
Sum(weights, log2) ==
    IF weights = <<>> THEN BZero
    ELSE Once(Sum(SubSeq(weights, 1, Len(weights) - 1), log2), LAMBDA rest :
            Once(weights[Len(weights)], LAMBDA w :
                IF w # BZero THEN FPlus(rest, FProduct(w, log2[w])) ELSE rest))

\* `-sum(w * np.log2(w) for w in weights if w > 0)`
Entropy(weights, log2) == Negated(Sum(weights, log2))

\* `[w for w in weights if w > 0]`
PositiveWeights(emotion_weights) ==
    SelectSeq([i \in 1..Len(emotion_weights) |-> emotion_weights[i].f],
              LAMBDA w : w # BZero)

\* the numbers _calculate_emotion_diversity passes to np.log2: the weights
\* above zero and their count, when they are two or more
Log2Asked(emotion_weights) ==
    Once(PositiveWeights(emotion_weights), LAMBDA weights :
        IF Len(weights) <= 1 THEN {}
        ELSE {weights[i] : i \in 1..Len(weights)} \cup {FloatOf(Len(weights), 1)})

\* a single emotion counts as full diversity
calculate_emotion_diversity_single(emotion_weights, log2) ==
    IF emotion_weights = <<>> THEN BZero
    ELSE Once(PositiveWeights(emotion_weights), LAMBDA weights :
            IF Len(weights) <= 1 THEN FloatOne
            ELSE FQuotient(Entropy(weights, log2), log2[FloatOf(Len(weights), 1)]))

\* _calculate_emotion_diversity: the float it returns, with np.log2
\* answering as `log2`
calculate_emotion_diversity(emotion_weights, log2) ==
    IF emotion_weights = <<>> THEN BZero
    ELSE Once(PositiveWeights(emotion_weights), LAMBDA weights :
            IF Len(weights) <= 1 THEN BZero
            ELSE Once(Entropy(weights, log2), LAMBDA entropy :
                    LET max_entropy == log2[FloatOf(Len(weights), 1)]
                    IN  IF ~IsMinus(max_entropy) /\ max_entropy # BZero
                        THEN FQuotient(entropy, max_entropy)
                        ELSE BZero))

----------------------------------------------------------------------------
(* get_emotion_summary.  The sentence it returns is modelled as the list of *)
(* its parts, which the code joins with "；".                               *)

\* `sorted_emotions[:3]`
TopCount == 3
\* `emotion_diversity > 0.7`, in tenths
HighDiversity == 7
\* `emotion_diversity > 0.4`, in tenths
ModerateDiversity == 4

\* "未检测到明显的情感倾向。"
NoEmotionSummary == << [kind |-> "none"] >>

\* f"{weight:.2f}": the float in hundredths, rounded to the nearest one.  What
\* is rounded is the float itself: it lies to one side of a half, or is the
\* half itself, which goes to the even hundredth
Format2(weight) ==
    Once(BTimes(weight, Hundredth), LAMBDA scaled :
        LET q == TopInt(scaled, LimbBits * UnitLimbs)
            rest == LowBits(scaled, LimbBits * UnitLimbs)
            half == BPow2(LimbBits * UnitLimbs - 1)
            up == BLess(half, rest) \/ (rest = half /\ q % 2 = 1)
        IN  IF up THEN q + 1 ELSE q)

\* sorted(emotion_weights.items(), key=lambda x: x[1], reverse=True): the
\* floats are compared; a stable sort, items of equal weight keep the dict's
\* order
SortedEmotions(emotion_weights) ==
    Once(emotion_weights, LAMBDA weights :
        LET rank(i) == 1 + Cardinality({j \in 1..Len(weights) :
                            \/ BLess(weights[i].f, weights[j].f)
                            \/ weights[j].f = weights[i].f /\ j < i})
        IN  [n \in 1..Len(weights) |->
                weights[CHOOSE i \in 1..Len(weights) : rank(i) = n]] \o <<>>)

\* `sorted_emotions[:3]`
TopEmotions(emotion_weights) ==
    LET sorted_emotions == SortedEmotions(emotion_weights)
    IN  SubSeq(sorted_emotions, 1,
               IF Len(sorted_emotions) < TopCount THEN Len(sorted_emotions) ELSE TopCount)

\* the whole of top_emotions is taken as secondary
SecondaryEmotions_all(top_emotions) == top_emotions

\* `top_emotions[1:]`
SecondaryEmotions(top_emotions) == Tail(top_emotions)

\* the label changes at 0.4 itself
DiversityLabel_inclusive(emotion_diversity) ==
    IF IsMinus(emotion_diversity) THEN "singular"
    ELSE IF BLess(FloatOf(HighDiversity, 10), emotion_diversity) THEN "highly diverse"
    ELSE IF ~BLess(emotion_diversity, FloatOf(ModerateDiversity, 10))
         THEN "moderately diverse"
    ELSE "singular"

\* lines 321-327: 较为复杂多样, 中等复杂 or 相对单一
DiversityLabel(emotion_diversity) ==
    IF IsMinus(emotion_diversity) THEN "singular"
    ELSE IF BLess(FloatOf(HighDiversity, 10), emotion_diversity) THEN "highly diverse"
    ELSE IF BLess(FloatOf(ModerateDiversity, 10), emotion_diversity)
         THEN "moderately diverse"
    ELSE "singular"

\* what get_emotion_summary ends with when `emotion_weights[dominant_emotion]`
\* finds no such key: the KeyError it raises, in place of a sentence
RaisedKeyError(key) == [raised |-> "KeyError", key |-> key]

get_emotion_summary(analysis_result) ==
    LET emotion_weights == analysis_result.emotion_weights
        dominant_emotion == analysis_result.dominant_emotion
        top_emotions == TopEmotions(emotion_weights)
        dominant_part ==
            IF dominant_emotion # None
            THEN << [kind |-> "dominant", emotion |-> dominant_emotion,
                     weight |-> Format2(FloatGet(emotion_weights, dominant_emotion))] >>
            ELSE <<>>
        secondary == SecondaryEmotions(top_emotions)
        secondary_part ==
            IF Len(top_emotions) > 1
            THEN << [kind |-> "secondary",
                     emotions |-> [i \in 1..Len(secondary) |->
                                     [emotion |-> secondary[i].k,
                                      weight |-> Format2(secondary[i].f)]]] >>
            ELSE <<>>
    IN  IF emotion_weights = <<>> THEN NoEmotionSummary
        ELSE IF dominant_emotion # None /\ ~HasKey(emotion_weights, dominant_emotion)
        THEN RaisedKeyError(dominant_emotion)
        ELSE dominant_part \o secondary_part
             \o << [kind |-> "diversity",
                    label |-> DiversityLabel(analysis_result.emotion_diversity)] >>

----------------------------------------------------------------------------
(* The lexicons and stopword sets an analyzer may be constructed with *)

\* plain: one emotion, so that no keyword touches another emotion, and words
\* made of 树 alone match nothing
\* 喜悦: 好好, 好好好   stopwords: 好, 树好
PlainSettings ==
    [lexicon |-> << [emotion |-> XiYue,
                     keywords |-> << <<ch_hao, ch_hao>>, <<ch_hao, ch_hao, ch_hao>> >>] >>,
     stop |-> { <<ch_hao>>, <<ch_shu, ch_hao>> }]

\* overlapping: a one-character keyword, a keyword inside another emotion's
\* keyword, a keyword that holds the semantic trigger 好 of another emotion,
\* and a keyword listed under two emotions
\* 平静: 树, 好树   失落: 树树, 好树树   思念: 树树
OverlapSettings ==
    [lexicon |-> << [emotion |-> PingJing,
                     keywords |-> << <<ch_shu>>, <<ch_hao, ch_shu>> >>],
                    [emotion |-> ShiLuo,
                     keywords |-> << <<ch_shu, ch_shu>>, <<ch_hao, ch_shu, ch_shu>> >>],
                    [emotion |-> SiNian,
                     keywords |-> << <<ch_shu, ch_shu>> >>] >>,
     stop |-> {}]

Settings == {PlainSettings, OverlapSettings}

\* long keywords, for the length tolerance of the fuzzy pass
\* 喜悦: 好好好好, 好好   平静: 树, 好树   忧伤: 好树树树树
LongSettings ==
    [lexicon |-> << [emotion |-> XiYue,
                     keywords |-> << <<ch_hao, ch_hao, ch_hao, ch_hao>>,
                                     <<ch_hao, ch_hao>> >>],
                    [emotion |-> PingJing,
                     keywords |-> << <<ch_shu>>, <<ch_hao, ch_shu>> >>],
                    [emotion |-> YouShang,
                     keywords |-> << <<ch_hao, ch_shu, ch_shu, ch_shu, ch_shu>> >>] >>,
     stop |-> {}]

----------------------------------------------------------------------------
(* Bounds and inputs *)

\* the longest text analysed
MaxTextLen == 4

Texts == SeqsUpTo(Alphabet, MaxTextLen)

Threads == {1, 2}

----------------------------------------------------------------------------
(* analyze_text *)

\* `not text or not text.strip()`
IsBlank(text) == text = <<>> \/ Strip(text) = <<>>

\* the blank-text result names 平静 as the dominant emotion
BlankResult_calm ==
    [emotion_weights |-> <<>>, emotion_keywords |-> <<>>, dominant_emotion |-> PingJing,
     emotion_diversity |-> BZero, processed_words |-> <<>>, word_count |-> 0]

\* the dict analyze_text returns for a blank text
BlankResult ==
    [emotion_weights |-> <<>>, emotion_keywords |-> <<>>, dominant_emotion |-> None,
     emotion_diversity |-> BZero, processed_words |-> <<>>, word_count |-> 0]

\* the dict analyze_text returns otherwise, with np.log2 answering as `log2`
Result(words, emotion_weights, attribution, log2) ==
    [emotion_weights |-> emotion_weights,
     emotion_keywords |-> attribution,
     dominant_emotion |-> Dominant(emotion_weights),
     emotion_diversity |-> calculate_emotion_diversity(emotion_weights, log2),
     processed_words |-> words,
     word_count |-> Len(words)]

\* the words, the weights and the keywords analyze_text works out for a
\* text that is not blank
Analysed(text, cut, sentiment) ==
    LET words == preprocess_text(cut)
    IN  [words |-> words,
         emotion_weights |-> calculate_emotion_weights(words, sentiment),
         attribution |-> extract_emotion_keywords(words)]

\* analyze_text as one function of the text and of what jieba.cut, the
\* scorer and np.log2 answer during the call
analyze_text(text, cut, sentiment, log2) ==
    IF IsBlank(text) THEN BlankResult
    ELSE Once(Analysed(text, cut, sentiment), LAMBDA analysed :
            Result(analysed.words, analysed.emotion_weights, analysed.attribution,
                   log2))

----------------------------------------------------------------------------
(* analyze_text, step by step.  frame[t] holds the local variables of thread *)
(* t's call; they stay readable after the return, until t's next call.      *)

IdleFrame ==
    [pc |-> "idle", text |-> <<>>, words |-> <<>>, emotion_scores |-> <<>>,
     direct_matches |-> 0, fuzzy_matches |-> 0, semantic_matches |-> <<>>,
     emotion_weights |-> <<>>, attribution |-> <<>>, result |-> BlankResult]

Returned(t, text, result) ==
    results' = [results EXCEPT ![t] = Append(@, [text |-> text, result |-> result])]

Unchanged_self ==
    UNCHANGED <<EMOTION_CATEGORIES, CHINESE_STOPWORDS, emotion_keywords,
                emotion_dict, stopwords>>

\* no function is called directly; the page and the story generator are at rest
NoCall == [op |-> "none"]

\* a session value that is None or an object: no element for None, the object
\* as the only element otherwise
Absent == <<>>
Present(object) == <<object>>

\* init_session_state on a new session
InitSession ==
    [emotion_history |-> <<>>, story_history |-> <<>>,
     current_analysis |-> Absent, current_story |-> Absent]

\* the story generator with no call in progress: op is the method called,
\* i the loop index, versions the list built, log the requests sent, the
\* responses received and the sleeps, in order
IdleGenerator ==
    [pc |-> "idle", op |-> "none", memory_fragments |-> <<>>, num_versions |-> 0,
     i |-> 0, versions |-> <<>>, result |-> None, log |-> <<>>]

\* analyze_text touches neither the page's session state nor the generator
Unchanged_app == UNCHANGED <<call, session_state, generator>>

\* analyze_text(text) is called: fresh locals, and the blank-text return
Call(t, text) ==
    /\ frame[t].pc \in {"idle", "done"}
    /\ IF IsBlank(text)
       THEN /\ frame' = [frame EXCEPT ![t] = [IdleFrame EXCEPT !.pc = "done",
                                                              !.text = text,
                                                              !.result = BlankResult]]
            /\ Returned(t, text, BlankResult)
       ELSE /\ frame' = [frame EXCEPT ![t] = [IdleFrame EXCEPT !.pc = "preprocess",
                                                              !.text = text]]
            /\ UNCHANGED results
    /\ Unchanged_self
    /\ Unchanged_app
    /\ UNCHANGED <<jieba, textblob, numpy>>

\* words = self.preprocess_text(text), jieba.cut returning `cut`
Preprocess(t, cut) ==
    /\ frame[t].pc = "preprocess"
    /\ cut \in Cuts(CleanText(frame[t].text))
    /\ frame' = [frame EXCEPT ![t].words = preprocess_text(cut),
                              ![t].pc = "weights"]
    /\ Unchanged_self
    /\ Unchanged_app
    /\ UNCHANGED results

\* emotion_scores is kept on the analyzer: every call in progress sees the
\* accumulator that pass 1 of this call starts
DirectMatch_shared(t) ==
    /\ frame[t].pc = "weights"
    /\ IF Len(frame[t].words) = 0
       THEN frame' = [frame EXCEPT ![t].emotion_weights = <<>>, ![t].pc = "extract"]
       ELSE LET direct == DirectPass(frame[t].words)
            IN  frame' = [u \in Threads |->
                    IF u = t
                    THEN [frame[u] EXCEPT !.emotion_scores = MergeScores(<<>>, direct),
                                          !.direct_matches = SumN(direct),
                                          !.pc = "fuzzy"]
                    ELSE [frame[u] EXCEPT !.emotion_scores = MergeScores(<<>>, direct)]]
    /\ Unchanged_self
    /\ Unchanged_app
    /\ UNCHANGED <<jieba, textblob, numpy, results>>

\* calculate_emotion_weights: `if word_count == 0: return`, else pass 1
DirectMatch(t) ==
    /\ frame[t].pc = "weights"
    /\ IF Len(frame[t].words) = 0
       THEN frame' = [frame EXCEPT ![t].emotion_weights = <<>>, ![t].pc = "extract"]
       ELSE LET direct == DirectPass(frame[t].words)
            IN  frame' = [frame EXCEPT ![t].emotion_scores = MergeScores(<<>>, direct),
                                       ![t].direct_matches = SumN(direct),
                                       ![t].pc = "fuzzy"]
    /\ Unchanged_self
    /\ Unchanged_app
    /\ UNCHANGED <<jieba, textblob, numpy, results>>

\* calculate_emotion_weights: pass 2
FuzzyMatch(t) ==
    /\ frame[t].pc = "fuzzy"
    /\ LET fuzzy == FuzzyPass(frame[t].words)
       IN  frame' = [frame EXCEPT ![t].emotion_scores = MergeScores(@, fuzzy),
                                  ![t].fuzzy_matches = SumN(fuzzy),
                                  ![t].pc = "semantic"]
    /\ Unchanged_self
    /\ Unchanged_app
    /\ UNCHANGED <<jieba, textblob, numpy, results>>

\* calculate_emotion_weights: pass 3
SemanticMatch(t) ==
    /\ frame[t].pc = "semantic"
    /\ LET semantic_matches == semantic_emotion_analysis(frame[t].words)
       IN  frame' = [frame EXCEPT
                        ![t].semantic_matches = semantic_matches,
                        ![t].emotion_scores = MergeScores(@, semantic_matches),
                        ![t].pc = "polarity"]
    /\ Unchanged_self
    /\ Unchanged_app
    /\ UNCHANGED <<jieba, textblob, numpy, results>>

\* calculate_emotion_weights: the scorer answering `sentiment`, the fallback
\* and the zero-sum rule
Polarity(t, sentiment) ==
    /\ frame[t].pc = "polarity"
    /\ LET total_matches == TotalMatches(frame[t].direct_matches,
                                         frame[t].fuzzy_matches,
                                         frame[t].semantic_matches)
           emotion_scores == PolarityStep(frame[t].emotion_scores,
                                          total_matches, sentiment)
       IN  frame' = [frame EXCEPT ![t].emotion_scores = emotion_scores,
                                  ![t].pc = "normalize"]
    /\ Unchanged_self
    /\ Unchanged_app
    /\ UNCHANGED results

\* calculate_emotion_weights: the smoothing, the normalisation and the return
Normalise(t) ==
    /\ frame[t].pc = "normalize"
    /\ frame' = [frame EXCEPT ![t].emotion_weights = Normalize(frame[t].emotion_scores),
                              ![t].pc = "extract"]
    /\ Unchanged_self
    /\ Unchanged_app
    /\ UNCHANGED <<jieba, textblob, numpy, results>>

\* the extracted lists are appended to self.emotion_keywords, the lexicon
Extract_shared(t) ==
    /\ frame[t].pc = "extract"
    /\ LET attribution == extract_emotion_keywords(frame[t].words)
       IN  /\ frame' = [frame EXCEPT ![t].attribution = attribution,
                                     ![t].pc = "finish"]
           /\ emotion_keywords' =
                 [i \in 1..Len(emotion_keywords) |->
                     [emotion |-> emotion_keywords[i].emotion,
                      keywords |-> emotion_keywords[i].keywords
                                   \o Listed(attribution, emotion_keywords[i].emotion)]]
    /\ UNCHANGED <<EMOTION_CATEGORIES, CHINESE_STOPWORDS, emotion_dict, stopwords>>
    /\ Unchanged_app
    /\ UNCHANGED <<jieba, textblob, numpy, results>>

\* emotion_keywords = self.extract_emotion_keywords(words)
Extract(t) ==
    /\ frame[t].pc = "extract"
    /\ frame' = [frame EXCEPT ![t].attribution = extract_emotion_keywords(frame[t].words),
                              ![t].pc = "finish"]
    /\ Unchanged_self
    /\ Unchanged_app
    /\ UNCHANGED <<jieba, textblob, numpy, results>>

\* the dominant emotion, the diversity and the return, np.log2 answering
\* as `log2`
Finish(t, log2) ==
    /\ frame[t].pc = "finish"
    /\ \E result \in {Result(frame[t].words, frame[t].emotion_weights,
                               frame[t].attribution, log2)} :
           /\ frame' = [frame EXCEPT ![t].result = result, ![t].pc = "done"]
           /\ Returned(t, frame[t].text, result)
    /\ Unchanged_self
    /\ Unchanged_app
    /\ UNCHANGED <<jieba, textblob>>

----------------------------------------------------------------------------
(* One analyzer, one caller, one call *)

\* EmotionAnalyzer() over the settings module
Constructed(settings) ==
    /\ EMOTION_CATEGORIES = settings.lexicon
    /\ CHINESE_STOPWORDS = settings.stop
    /\ emotion_keywords = settings.lexicon
    /\ stopwords = settings.stop
    /\ emotion_dict = build_emotion_dict(settings.lexicon)

Init ==
    /\ \E settings \in Settings : Constructed(settings)
    /\ frame = [t \in Threads |-> IdleFrame]
    /\ jieba = <<>>
    /\ textblob = <<>>
    /\ numpy = <<>>
    /\ results = [t \in Threads |-> <<>>]
    /\ call = NoCall
    /\ session_state = InitSession
    /\ generator = IdleGenerator

\* the caller passes any text
CallAny ==
    /\ frame[1].pc = "idle"
    /\ \E text \in Texts : Call(1, text)

\* jieba segments the cleaned text one way or another
CutAny ==
    /\ frame[1].pc = "preprocess"
    /\ \E cut \in Cuts(CleanText(frame[1].text)) :
          Preprocess(1, cut) /\ UNCHANGED <<jieba, textblob, numpy>>

\* the scorer raises or answers
ScoreAny ==
    /\ frame[1].pc = "polarity"
    /\ \E sentiment \in Sentiments :
          Polarity(1, sentiment) /\ UNCHANGED <<jieba, textblob, numpy>>

\* np.log2 answers one way or another
FinishAny ==
    /\ frame[1].pc = "finish"
    /\ \E log2 \in Libraries(Log2Asked(frame[1].emotion_weights), numpy) :
          Finish(1, log2) /\ UNCHANGED numpy

Next ==
    \/ CallAny
    \/ CutAny
    \/ ScoreAny
    \/ DirectMatch(1)
    \/ FuzzyMatch(1)
    \/ SemanticMatch(1)
    \/ Normalise(1)
    \/ Extract(1)
    \/ FinishAny

Spec == Init /\ [][Next]_vars

----------------------------------------------------------------------------
(* A deterministic tokenizer and a deterministic scorer: jieba and textblob *)
(* remember what they answered for a text and answer it again.  So does     *)
(* numpy for a number.                                                      *)

\* the scorer outcomes tried where calls are repeated
SampleSentiments ==
    {Raised,
     [raised |-> FALSE, polarity |-> 3, subjectivity |-> 6],
     [raised |-> FALSE, polarity |-> 0, subjectivity |-> 6],
     [raised |-> FALSE, polarity |-> -3, subjectivity |-> 3]}

\* words = self.preprocess_text(text) with the tokenizer's answer for the text
Tokenize(t) ==
    /\ frame[t].pc = "preprocess"
    /\ LET text == CleanText(frame[t].text)
       IN  IF text \in DOMAIN jieba
           THEN Preprocess(t, jieba[text]) /\ UNCHANGED jieba
           ELSE \E cut \in Cuts(text) :
                   Preprocess(t, cut) /\ jieba' = (text :> cut) @@ jieba
    /\ UNCHANGED <<textblob, numpy>>

\* the polarity step with the scorer's answer for ' '.join(words), one of
\* `sentiments` when the scorer has not seen the words yet
Score(t, sentiments) ==
    /\ frame[t].pc = "polarity"
    /\ LET text == Join(frame[t].words)
       IN  IF text \in DOMAIN textblob
           THEN Polarity(t, textblob[text]) /\ UNCHANGED textblob
           ELSE \E sentiment \in sentiments :
                   Polarity(t, sentiment) /\ textblob' = (text :> sentiment) @@ textblob
    /\ UNCHANGED <<jieba, numpy>>

\* the last steps with np.log2's answer for each number
Logarithms(t) ==
    /\ frame[t].pc = "finish"
    /\ \E log2 \in Libraries(Log2Asked(frame[t].emotion_weights), numpy) :
          Finish(t, log2) /\ numpy' = log2 @@ numpy

\* the words, the weights and the keywords analyze_text(text) works out
\* when the call runs alone on a freshly constructed analyzer, with the
\* answers the tokenizer and the scorer gave
AnalysedAlone(text) ==
    LET cut == jieba[CleanText(text)]
        words == preprocess_text(cut)
    IN  Analysed(text, cut, IF words = <<>> THEN Raised ELSE textblob[Join(words)])

\* what that call returns, with the answers np.log2 gave; nothing when
\* np.log2 was not asked the numbers that call passes to it
RunAlone(text) ==
    IF IsBlank(text) THEN Present(BlankResult)
    ELSE Once(AnalysedAlone(text), LAMBDA alone :
            IF Log2Asked(alone.emotion_weights) \subseteq DOMAIN numpy
            THEN Present(Result(alone.words, alone.emotion_weights,
                                alone.attribution, numpy))
            ELSE Absent)

----------------------------------------------------------------------------
(* One caller calling analyze_text again and again *)

\* the number of calls the caller makes
MaxCalls == 2

\* the texts the caller passes, in any order and any number of times:
\* 好树, 树树好树 and ，
RepeatTexts == { <<ch_hao, ch_shu>>, <<ch_shu, ch_shu, ch_hao, ch_shu>>, <<ch_comma>> }

CallAgain ==
    /\ frame[1].pc \in {"idle", "done"}
    /\ Len(results[1]) < MaxCalls
    /\ \E text \in RepeatTexts : Call(1, text)

NextRepeat ==
    \/ CallAgain
    \/ Tokenize(1)
    \/ Score(1, SampleSentiments)
    \/ DirectMatch(1)
    \/ FuzzyMatch(1)
    \/ SemanticMatch(1)
    \/ Normalise(1)
    \/ Extract(1)
    \/ Logarithms(1)

SpecRepeat == Init /\ [][NextRepeat]_vars

----------------------------------------------------------------------------
(* Two threads, one call each on the shared analyzer, steps interleaved *)

\* 好树, 树树树 and a blank text
ConcTexts == { <<ch_hao, ch_shu>>, <<ch_shu, ch_shu, ch_shu>>, <<ch_space>> }

\* the scorer outcomes tried where two calls run side by side
ConcSentiments ==
    {Raised, [raised |-> FALSE, polarity |-> 3, subjectivity |-> 6]}

CallOnce(t) ==
    /\ frame[t].pc = "idle"
    /\ \E text \in ConcTexts : Call(t, text)

NextConc ==
    \E t \in Threads :
        \/ CallOnce(t)
        \/ Tokenize(t)
        \/ Score(t, ConcSentiments)
        \/ DirectMatch(t)
        \/ FuzzyMatch(t)
        \/ SemanticMatch(t)
        \/ Normalise(t)
        \/ Extract(t)
        \/ Logarithms(t)

SpecConc == Init /\ [][NextConc]_vars

----------------------------------------------------------------------------
(* get_emotion_summary called on an analysis result *)

\* the most emotions a summarised weight map holds
MaxSummaryEmotions == 4

\* the emotions of the summarised maps, in the maps' order
SummaryEmotions == <<XiYue, WenNuan, SiNian, PingJing, ShiLuo, YouShang, QiDai, WuZhu>>

\* the weights tried
WeightSamples == {1000, 1250, 2000, 2500, 3000, 4000, 5000, 6000, 7000, 7500,
                  8000, 9000, 10000}

\* the float of a weight of w units: the double nearest to w/WScale
WeightFloat(w) == FDiv(FloatOf(w, 1), FloatOf(WScale, 1))

\* the float n places after the float f, before it for n < 0
FloatAfter(f, n) ==
    LET ulp == BPow2(BitLen(f) - Significand)
    IN  IF n >= 0 THEN BAdd(f, BTimes(ulp, n)) ELSE BSub(f, BTimes(ulp, -n))

\* the diversities tried: 0.0, 1.0, and 0.4 and 0.7 with the floats next to
\* them
DiversitySamples ==
    {BZero, FloatOne}
    \cup {FloatAfter(FloatOf(tenths, 10), n) : tenths \in {4, 7}, n \in {-1, 0, 1}}

\* the weights of three emotions that are a third each but for the last bit
\* of the float: 0.33333333333333326, 0.3333333333333333, 0.33333333333333337
\* in every order
CloseWeights ==
    LET third == FDiv(FloatOf(1, 1), FloatOf(3, 1))
    IN  {[i \in 1..3 |-> Weighted(SummaryEmotions[i], FloatAfter(third, order[i]))] \o <<>> :
            order \in {x \in [1..3 -> {-1, 0, 1}] : \A i, j \in 1..3 : x[i] = x[j] => i = j}}

\* the empty map, the maps over the first emotions whose weights sum to 1,
\* and maps whose weights differ in the last bit only
SummaryWeights ==
    {<<>>} \cup CloseWeights \cup
    UNION {{[i \in 1..n |-> Weighted(SummaryEmotions[i], WeightFloat(w[i]))] \o <<>> :
               w \in {x \in [1..n -> WeightSamples] :
                        SumV([i \in 1..n |-> [v |-> x[i]]]) = WScale}} :
           n \in 1..(IF MaxSummaryEmotions < 8 THEN MaxSummaryEmotions ELSE 8)}

\* get_emotion_summary(analysis_result) for a result as analyze_text builds it
Summarize ==
    /\ call = NoCall
    /\ \E emotion_weights \in SummaryWeights, emotion_diversity \in DiversitySamples :
          LET analysis_result ==
                  [emotion_weights |-> emotion_weights,
                   emotion_keywords |-> <<>>,
                   dominant_emotion |-> Dominant(emotion_weights),
                   emotion_diversity |-> emotion_diversity,
                   processed_words |-> <<>>, word_count |-> 0]
          IN  call' = [op |-> "get_emotion_summary", arg |-> analysis_result,
                       value |-> get_emotion_summary(analysis_result)]
    /\ Unchanged_self
    /\ UNCHANGED <<frame, jieba, textblob, numpy, results, session_state, generator>>

NextSummary == Summarize

SpecSummary == Init /\ [][NextSummary]_vars

----------------------------------------------------------------------------
(* _calculate_emotion_diversity called on a weight map *)

\* the most emotions a weight map given to it holds
MaxDiversityEmotions == 3

\* the weights tried: 0.0, 0.00001 (below one unit of 1/WScale), a third,
\* a half, 1.0 and 2.0
DiversityWeights ==
    {BZero, FDiv(FloatOne, FloatOf(100000, 1)), FDiv(FloatOne, FloatOf(3, 1)),
     FloatOf(1, 2), FloatOne, FloatOf(2, 1)}

\* the maps over the first emotions with those weights
DiversityMaps ==
    UNION {{[i \in 1..n |-> Weighted(SummaryEmotions[i], w[i])] \o <<>> :
               w \in [1..n -> DiversityWeights]} :
           n \in 0..(IF MaxDiversityEmotions < 8 THEN MaxDiversityEmotions ELSE 8)}

\* self._calculate_emotion_diversity(emotion_weights)
DiversityCall ==
    /\ call = NoCall
    /\ \E emotion_weights \in DiversityMaps :
          \E log2 \in Libraries(Log2Asked(emotion_weights), numpy) :
             call' = [op |-> "calculate_emotion_diversity", arg |-> emotion_weights,
                      log2 |-> log2,
                      value |-> calculate_emotion_diversity(emotion_weights, log2)]
    /\ Unchanged_self
    /\ UNCHANGED <<frame, jieba, textblob, numpy, results, session_state, generator>>

NextDiversity == DiversityCall

SpecDiversity == Init /\ [][NextDiversity]_vars

----------------------------------------------------------------------------
(* preprocess_text called on a text *)

\* preprocess_text(text), jieba.cut returning `cut`
PreprocessCall ==
    /\ call = NoCall
    /\ \E text \in Texts :
          \E cut \in Cuts(CleanText(text)) :
              call' = [op |-> "preprocess_text", arg |-> text, cut |-> cut,
                       value |-> preprocess_text(cut)]
    /\ Unchanged_self
    /\ UNCHANGED <<frame, jieba, textblob, numpy, results, session_state, generator>>

NextTokens == PreprocessCall

SpecTokens == Init /\ [][NextTokens]_vars

----------------------------------------------------------------------------
(* calculate_emotion_weights called on a token sequence *)

\* the most tokens of a sequence
MaxTokens == 2

\* 好好, 树树, 好树, 树树树, 未来, 开心, and 没有, which lies inside the
\* semantic word 没有了 and holds none
WeightTokens ==
    { <<ch_hao, ch_hao>>, <<ch_shu, ch_shu>>, <<ch_hao, ch_shu>>,
      <<ch_shu, ch_shu, ch_shu>>, <<"U672A", "U6765">>, <<"U5F00", "U5FC3">>,
      <<"U6CA1", "U6709">> }

\* 阳光, 心情, 开心, 笑容, 满面
ExampleWords ==
    << <<"U9633", "U5149">>, <<"U5FC3", "U60C5">>, <<"U5F00", "U5FC3">>,
       <<"U7B11", "U5BB9">>, <<"U6EE1", "U9762">> >>

\* the scorer answers polarity 0 and subjectivity 0
Silent == [raised |-> FALSE, polarity |-> 0, subjectivity |-> 0]

WeightSentiments == Sentiments \cup {Silent}

\* calculate_emotion_weights(words), the scorer doing `sentiment`
WeightsCall ==
    /\ call = NoCall
    /\ \E words \in SeqsUpTo(WeightTokens, MaxTokens) \cup {ExampleWords} :
          \E sentiment \in WeightSentiments :
              call' = [op |-> "calculate_emotion_weights", arg |-> words,
                       sentiment |-> sentiment,
                       scores |-> IF words = <<>> THEN <<>>
                                  ELSE EmotionScores(words, sentiment),
                       value |-> calculate_emotion_weights(words, sentiment)]
    /\ Unchanged_self
    /\ UNCHANGED <<frame, jieba, textblob, numpy, results, session_state, generator>>

NextWeights == WeightsCall

SpecWeights == Init /\ [][NextWeights]_vars

----------------------------------------------------------------------------
(* The fuzzy pass of calculate_emotion_weights on its own *)

\* the longest token given to the fuzzy pass
MaxWordLen == 5

\* the tokens: every word of 好 and 树 up to the bound
FuzzyWords == SeqsUpTo(WordChars, MaxWordLen) \ {<<>>}

\* the token sequences: one token, or two tokens of at most two characters
FuzzyInputs ==
    {<<word>> : word \in FuzzyWords} \cup
    {<<word, other>> : word, other \in {w \in FuzzyWords : Len(w) <= MinFuzzyKeywordLen}}

\* a new analyzer over one of the three lexicons
InitFuzzy ==
    /\ \E settings \in Settings \cup {LongSettings} : Constructed(settings)
    /\ frame = [t \in Threads |-> IdleFrame]
    /\ jieba = <<>>
    /\ textblob = <<>>
    /\ numpy = <<>>
    /\ results = [t \in Threads |-> <<>>]
    /\ call = NoCall
    /\ session_state = InitSession
    /\ generator = IdleGenerator

\* calculate_emotion_weights(words) up to the end of the fuzzy pass, the
\* direct pass left aside: what the pass added to emotion_scores, and
\* fuzzy_matches
FuzzyCall ==
    /\ \E words \in FuzzyInputs :
          call' = [op |-> "calculate_emotion_weights", arg |-> words,
                   emotion_scores |-> MergeScores(<<>>, FuzzyPass(words)),
                   fuzzy_matches |-> SumN(FuzzyPass(words))]
    /\ Unchanged_self
    /\ UNCHANGED <<frame, jieba, textblob, numpy, results, session_state, generator>>

NextFuzzy == FuzzyCall

SpecFuzzy == InitFuzzy /\ [][NextFuzzy]_vars

----------------------------------------------------------------------------
(* The story generator: generate_story and generate_multiple_versions *)

\* the most versions asked for
MaxVersions == 3

\* the lists of memory fragments tried
FragmentLists == { <<>>, <<"fragment1">>, <<"fragment1", "fragment2">> }

\* the texts the API may answer with: nothing, a blank, 好, 好 between blanks
ResponseTexts == { <<>>, <<ch_space>>, <<ch_hao>>, <<ch_space, ch_hao, ch_space>> }

\* what requests.get and raise_for_status may do: a 2xx response with a text,
\* an HTTP error status, a timeout, or any other exception
ApiOutcomes ==
    {[kind |-> "ok", text |-> text] : text \in ResponseTexts} \cup
    {[kind |-> kind, text |-> <<>>] : kind \in {"http_error", "timeout", "exception"}}

\* call_pollinations_api after the request: response.text.strip(), or None
\* from either except block
ApiReturn(outcome) ==
    IF outcome.kind = "ok" THEN Strip(outcome.text) ELSE None

\* the dict generate_story returns without fragments
NoFragmentsResult ==
    [success |-> FALSE, error |-> "no fragments", story |-> <<>>,
     metadata |-> <<>>, version |-> None]

\* `if story_text is not None`: an empty answer counts as a story
StoryResult_blankOk(story_text, memory_fragments, custom_requirements) ==
    IF story_text # None
    THEN [success |-> TRUE, error |-> "", story |-> story_text,
          metadata |-> [memory_fragments |-> memory_fragments,
                        custom_requirements |-> custom_requirements,
                        word_count |-> Len(story_text)],
          version |-> None]
    ELSE [success |-> FALSE, error |-> "api call failed", story |-> <<>>,
          metadata |-> <<>>, version |-> None]

\* the dict generate_story returns for what call_pollinations_api returned;
\* custom_requirements is the number of the version asked for, 0 for none
StoryResult(story_text, memory_fragments, custom_requirements) ==
    IF story_text # None /\ story_text # <<>>
    THEN [success |-> TRUE, error |-> "", story |-> story_text,
          metadata |-> [memory_fragments |-> memory_fragments,
                        custom_requirements |-> custom_requirements,
                        word_count |-> Len(story_text)],
          version |-> None]
    ELSE [success |-> FALSE, error |-> "api call failed", story |-> <<>>,
          metadata |-> <<>>, version |-> None]

\* time.sleep(1) follows every attempt
SleepBetween_always(i, num_versions) == i < num_versions

\* `if i < num_versions - 1`
SleepBetween(i, num_versions) == i < num_versions - 1

\* the versions are numbered as they are kept: 1, 2, ... without gaps
Collect_renumbered(versions, result, i) ==
    IF result.success
    THEN Append(versions, [result EXCEPT !.version = Len(versions) + 1])
    ELSE versions

\* `if result['success']: result['version'] = i + 1; versions.append(result)`
Collect(versions, result, i) ==
    IF result.success THEN Append(versions, [result EXCEPT !.version = i + 1])
    ELSE versions

\* `result['version'] = i + 1` writes into the dict that `result` names
Numbered(result, i) ==
    IF result.success THEN [result EXCEPT !.version = i + 1] ELSE result

\* the rest of the loop body once generate_story has returned `result`
AfterAttempt(result) ==
    [generator EXCEPT
        !.versions = Collect(@, result, generator.i),
        !.result = Numbered(result, generator.i),
        !.pc = IF SleepBetween(generator.i, generator.num_versions)
               THEN "sleep" ELSE "loop",
        !.i = IF SleepBetween(generator.i, generator.num_versions) THEN @ ELSE @ + 1]

\* generate_story returns `result`: to the page when the page called it, to
\* the loop of generate_multiple_versions otherwise
StoryReturned(result) ==
    IF generator.op = "generate_story"
    THEN [generator EXCEPT !.result = result, !.pc = "returned"]
    ELSE AfterAttempt(result)

Unchanged_analysis ==
    /\ Unchanged_self
    /\ UNCHANGED <<frame, jieba, textblob, numpy, results>>

\* generate_multiple_versions(memory_fragments, num_versions=n) is called
StartVersions(memory_fragments, n) ==
    /\ generator.pc = "idle"
    /\ generator' = [IdleGenerator EXCEPT !.pc = "loop",
                                          !.op = "generate_multiple_versions",
                                          !.memory_fragments = memory_fragments,
                                          !.num_versions = n]
    /\ Unchanged_analysis

\* generate_story without fragments returns at once, no request is sent
AttemptWithoutFragments ==
    /\ generator.pc = "loop"
    /\ generator.i < generator.num_versions
    /\ generator.memory_fragments = <<>>
    /\ generator' = StoryReturned(NoFragmentsResult)
    /\ Unchanged_analysis

\* generate_story builds the prompt and call_pollinations_api sends the request
SendRequest ==
    /\ generator.pc = "loop"
    /\ generator.i < generator.num_versions
    /\ generator.memory_fragments # <<>>
    /\ generator' = [generator EXCEPT
                        !.pc = "waiting",
                        !.log = Append(@, [event |-> "request",
                                           attempt |-> generator.i + 1])]
    /\ Unchanged_analysis

\* the request ends one way or another and generate_story returns
ReceiveResponse(outcome) ==
    /\ generator.pc = "waiting"
    /\ LET result ==
               StoryResult(ApiReturn(outcome), generator.memory_fragments,
                           IF generator.op = "generate_story" THEN 0
                           ELSE generator.i + 1)
       IN  generator' =
               [StoryReturned(result) EXCEPT
                   !.log = Append(@, [event |-> "response",
                                      attempt |-> generator.i + 1,
                                      success |-> result.success])]
    /\ Unchanged_analysis

\* time.sleep(1), then the next round of the loop
Sleep ==
    /\ generator.pc = "sleep"
    /\ generator' = [generator EXCEPT
                        !.pc = "loop",
                        !.i = @ + 1,
                        !.log = Append(@, [event |-> "sleep",
                                           attempt |-> generator.i + 1])]
    /\ Unchanged_analysis

\* `return versions`
ReturnVersions ==
    /\ generator.pc = "loop"
    /\ generator.i >= generator.num_versions
    /\ generator' = [generator EXCEPT !.pc = "returned", !.result = generator.versions]
    /\ Unchanged_analysis

\* a caller asks for up to MaxVersions versions
CallVersions ==
    /\ generator.pc = "idle"
    /\ \E memory_fragments \in FragmentLists, n \in 0..MaxVersions :
          StartVersions(memory_fragments, n)
    /\ UNCHANGED <<call, session_state>>

RespondAny ==
    /\ generator.pc = "waiting"
    /\ \E outcome \in ApiOutcomes : ReceiveResponse(outcome)
    /\ UNCHANGED <<call, session_state>>

NextGenerator ==
    \/ CallVersions
    \/ AttemptWithoutFragments /\ UNCHANGED <<call, session_state>>
    \/ SendRequest /\ UNCHANGED <<call, session_state>>
    \/ RespondAny
    \/ Sleep /\ UNCHANGED <<call, session_state>>
    \/ ReturnVersions /\ UNCHANGED <<call, session_state>>

SpecGenerator == Init /\ [][NextGenerator]_vars

----------------------------------------------------------------------------
(* call_pollinations_api and generate_story called directly *)

\* the prompts tried: none, a blank and a one-character prompt
Prompts == { <<>>, <<ch_space>>, <<ch_hao>> }

\* generate_story_prompt: "" without fragments, otherwise the template,
\* which names the fragments
generate_story_prompt(memory_fragments) ==
    IF memory_fragments = <<>> THEN <<>>
    ELSE <<"template">> \o memory_fragments

\* call_pollinations_api(prompt) when the request, if one is sent, ends
\* with `outcome`
call_pollinations_api(prompt, outcome) ==
    IF prompt = <<>> THEN None ELSE ApiReturn(outcome)

\* what generate_story got from call_pollinations_api; None as well when it
\* returned before calling it
ApiAnswer(memory_fragments, outcome) ==
    IF memory_fragments = <<>> THEN None
    ELSE call_pollinations_api(generate_story_prompt(memory_fragments), outcome)

\* generate_story(memory_fragments, custom_requirements=...) as one function
generate_story(memory_fragments, custom_requirements, outcome) ==
    IF memory_fragments = <<>> THEN NoFragmentsResult
    ELSE StoryResult(ApiAnswer(memory_fragments, outcome),
                     memory_fragments, custom_requirements)

\* the outcome of a call that sent no request
NoRequest == [kind |-> "none", text |-> <<>>]

\* a thread that has called nothing yet
NoApiCall == [op |-> "none", pc |-> "idle"]

\* each thread calls on its own: call[t] is thread t's call, pc "waiting"
\* while it is blocked in requests.get, "returned" after its return
InitApi ==
    /\ \E settings \in Settings : Constructed(settings)
    /\ frame = [t \in Threads |-> IdleFrame]
    /\ jieba = <<>>
    /\ textblob = <<>>
    /\ numpy = <<>>
    /\ results = [t \in Threads |-> <<>>]
    /\ call = [t \in Threads |-> NoApiCall]
    /\ session_state = InitSession
    /\ generator = IdleGenerator

\* thread t is in no call
AtRest(t) == call[t].pc \in {"idle", "returned"}

\* call_pollinations_api(prompt) is called: `if not prompt: return None`,
\* otherwise lines 118-141 build the request and requests.get sends it
ApiCall(t) ==
    /\ AtRest(t)
    /\ \E prompt \in Prompts :
          call' = [call EXCEPT ![t] =
                      IF prompt = <<>>
                      THEN [op |-> "call_pollinations_api", arg |-> prompt,
                            pc |-> "returned", outcome |-> NoRequest,
                            answer |-> None, value |-> None]
                      ELSE [op |-> "call_pollinations_api", arg |-> prompt,
                            pc |-> "waiting"]]
    /\ Unchanged_analysis
    /\ UNCHANGED <<session_state, generator>>

\* requests.get ends with `outcome`; lines 142-152 return
ApiReceive(t) ==
    /\ call[t].op = "call_pollinations_api"
    /\ call[t].pc = "waiting"
    /\ \E outcome \in ApiOutcomes :
          call' = [call EXCEPT ![t] =
                      [op |-> "call_pollinations_api", arg |-> call[t].arg,
                       pc |-> "returned", outcome |-> outcome, answer |-> None,
                       value |-> call_pollinations_api(call[t].arg, outcome)]]
    /\ Unchanged_analysis
    /\ UNCHANGED <<session_state, generator>>

\* generate_story(memory_fragments) is called: the return of lines 172-178
\* without fragments, otherwise the prompt is built and
\* call_pollinations_api sends the request
StoryCall(t) ==
    /\ AtRest(t)
    /\ \E memory_fragments \in FragmentLists, custom_requirements \in 0..1 :
          call' = [call EXCEPT ![t] =
                      IF memory_fragments = <<>>
                      THEN [op |-> "generate_story", arg |-> memory_fragments,
                            custom_requirements |-> custom_requirements,
                            pc |-> "returned", outcome |-> NoRequest,
                            answer |-> None, value |-> NoFragmentsResult]
                      ELSE [op |-> "generate_story", arg |-> memory_fragments,
                            custom_requirements |-> custom_requirements,
                            pc |-> "waiting"]]
    /\ Unchanged_analysis
    /\ UNCHANGED <<session_state, generator>>

\* requests.get ends with `outcome`; call_pollinations_api returns and
\* lines 201-221 make the result
StoryReceive(t) ==
    /\ call[t].op = "generate_story"
    /\ call[t].pc = "waiting"
    /\ \E outcome \in ApiOutcomes :
          call' = [call EXCEPT ![t] =
                      [op |-> "generate_story", arg |-> call[t].arg,
                       custom_requirements |-> call[t].custom_requirements,
                       pc |-> "returned", outcome |-> outcome,
                       answer |-> ApiAnswer(call[t].arg, outcome),
                       value |-> generate_story(call[t].arg,
                                                call[t].custom_requirements,
                                                outcome)]]
    /\ Unchanged_analysis
    /\ UNCHANGED <<session_state, generator>>

NextApi ==
    \/ \E t \in Threads : ApiCall(t)
    \/ \E t \in Threads : ApiReceive(t)
    \/ \E t \in Threads : StoryCall(t)
    \/ \E t \in Threads : StoryReceive(t)

SpecApi == InitApi /\ [][NextApi]_vars

----------------------------------------------------------------------------
(* The page: the handlers of main_app.py over st.session_state *)

\* the longest story history and the longest emotion history kept
MaxHistory == 3
MaxSaved == 1

\* the positions of st.slider("生成版本数", 1, 3, 1) tried
UIVersions == {1, 2}

\* the texts typed into the analyzer's text area: 好好 and a blank
UITexts == { <<ch_hao, ch_hao>>, <<ch_space>> }

\* what the sentiment scorer answers on the page
UISentiments == {[raised |-> FALSE, polarity |-> 3, subjectivity |-> 6]}

\* final_fragments on the page: none, or the fragments typed
UIFragments == { <<>>, <<"fragment1">> }

\* the entry appended to emotion_history (the timestamp is left out)
HistoryEntry(input_text, analysis_result) ==
    [text |-> input_text, result |-> analysis_result]

\* what a handler leaves in `call`: its name and what it showed; the
\* generate handler, which takes several steps, also the session state it
\* started from
Handled(op, value) ==
    [op |-> op,
     before |-> IF op = "render_story_generator" THEN session_state ELSE None,
     method |-> "none", result |-> None,
     value |-> value]

\* what the analyzer's handler leaves in `call`: also the text typed and
\* the 保存到历史记录 checkbox
AnalyzerHandled(input_text, save_to_history, value) ==
    [op |-> "render_emotion_analyzer", before |-> None, method |-> "none",
     result |-> None, value |-> value,
     arg |-> input_text, save_to_history |-> save_to_history]

\* the analysis is put in the history whether the box is checked or not
Saved_always(emotion_history, input_text, analysis_result, save_to_history) ==
    Append(emotion_history, HistoryEntry(input_text, analysis_result))

\* `if save_to_history: st.session_state.emotion_history.append({...})`
Saved(emotion_history, input_text, analysis_result, save_to_history) ==
    IF save_to_history
    THEN Append(emotion_history, HistoryEntry(input_text, analysis_result))
    ELSE emotion_history

\* the 开始分析 button of render_emotion_analyzer
AnalyzeButton(input_text, cut, sentiment, save_to_history) ==
    /\ generator.pc = "idle"
    /\ IF Strip(input_text) # <<>>
       THEN \E analysed \in {Analysed(input_text, cut, sentiment)} :
            \E log2 \in Libraries(Log2Asked(analysed.emotion_weights), numpy) :
            \E analysis_result \in {Result(analysed.words, analysed.emotion_weights,
                                            analysed.attribution, log2)} :
                /\ session_state' =
                      [session_state EXCEPT
                          !.current_analysis = Present(analysis_result),
                          !.emotion_history =
                              Saved(@, input_text, analysis_result, save_to_history)]
                /\ call' = AnalyzerHandled(input_text, save_to_history,
                                           IF save_to_history THEN "saved"
                                           ELSE "analysed")
       ELSE /\ session_state' = session_state
            /\ call' = AnalyzerHandled(input_text, save_to_history, "ignored")
    /\ Unchanged_analysis
    /\ UNCHANGED generator

\* the 清空情感历史 button of render_sidebar
ClearEmotionHistory ==
    /\ generator.pc = "idle"
    /\ session_state.emotion_history # <<>>
    /\ session_state' = [session_state EXCEPT !.emotion_history = <<>>]
    /\ call' = Handled("clear_emotion_history", "cleared")
    /\ Unchanged_analysis
    /\ UNCHANGED generator

\* the 清空故事历史 button of render_sidebar
ClearStoryHistory ==
    /\ generator.pc = "idle"
    /\ session_state.story_history # <<>>
    /\ session_state' = [session_state EXCEPT !.story_history = <<>>]
    /\ call' = Handled("clear_story_history", "cleared")
    /\ Unchanged_analysis
    /\ UNCHANGED generator

\* the 生成故事 button of render_story_generator, up to the generator call
GenerateButton(final_fragments, num_versions) ==
    /\ generator.pc = "idle"
    /\ Len(session_state.story_history) + num_versions <= MaxHistory
    /\ IF final_fragments = <<>>
       THEN /\ call' = Handled("render_story_generator", "warning")
            /\ UNCHANGED generator
       ELSE /\ call' = Handled("render_story_generator", "running")
            /\ generator' =
                  [IdleGenerator EXCEPT
                      !.pc = "loop",
                      !.op = IF num_versions = 1 THEN "generate_story"
                             ELSE "generate_multiple_versions",
                      !.memory_fragments = final_fragments,
                      !.num_versions = num_versions]
    /\ UNCHANGED session_state
    /\ Unchanged_analysis

\* the page reports a failed generation and stores nothing
GenerationFailed_reset(session) == [session EXCEPT !.current_story = Absent]

\* st.error(...): nothing is stored
GenerationFailed(session) == session

\* the new stories take the place of the history
StoriesStored_replace(session, stories) ==
    [session EXCEPT !.current_story = Present(stories), !.story_history = stories]

\* `current_story = ...` and `story_history.append(...)` or `.extend(...)`
StoriesStored(session, stories) ==
    [session EXCEPT !.current_story = Present(stories),
                    !.story_history = @ \o stories]

\* the rest of the handler once the generator has returned
GenerateShown ==
    /\ generator.pc = "returned"
    /\ call.op = "render_story_generator"
    /\ LET result == generator.result
           stored == IF generator.op = "generate_story"
                     THEN result.success
                     ELSE result # <<>>
           stories == IF generator.op = "generate_story" THEN <<result>> ELSE result
       IN  /\ session_state' =
                 IF stored
                 THEN StoriesStored(session_state, stories)
                 ELSE GenerationFailed(session_state)
           /\ call' = [call EXCEPT !.value = IF stored THEN "shown" ELSE "error",
                                   !.method = generator.op,
                                   !.result = result]
    /\ generator' = IdleGenerator
    /\ Unchanged_analysis

AnalyzeAny ==
    /\ generator.pc = "idle"
    /\ \E input_text \in UITexts, sentiment \in UISentiments, save_to_history \in BOOLEAN :
          /\ save_to_history => Len(session_state.emotion_history) < MaxSaved
          /\ \E cut \in Cuts(CleanText(input_text)) :
                AnalyzeButton(input_text, cut, sentiment, save_to_history)

GenerateAny ==
    /\ generator.pc = "idle"
    /\ \E final_fragments \in UIFragments, num_versions \in UIVersions :
          GenerateButton(final_fragments, num_versions)

RespondToPage ==
    /\ generator.pc = "waiting"
    /\ \E outcome \in ApiOutcomes : ReceiveResponse(outcome)
    /\ UNCHANGED <<call, session_state>>

NextUI ==
    \/ AnalyzeAny
    \/ ClearEmotionHistory
    \/ ClearStoryHistory
    \/ GenerateAny
    \/ SendRequest /\ UNCHANGED <<call, session_state>>
    \/ RespondToPage
    \/ Sleep /\ UNCHANGED <<call, session_state>>
    \/ ReturnVersions /\ UNCHANGED <<call, session_state>>
    \/ GenerateShown

SpecUI == Init /\ [][NextUI]_vars

----------------------------------------------------------------------------
(* The analyzer page on its own: analyses and the clearing of their history *)

\* the longest emotion history on the analyzer page
MaxEntries == 2

\* the texts typed: 好好, 树树, a blank and nothing
PageTexts == { <<ch_hao, ch_hao>>, <<ch_shu, ch_shu>>, <<ch_space>>, <<>> }

PageAnalyze ==
    /\ generator.pc = "idle"
    /\ \E input_text \in PageTexts, sentiment \in UISentiments, save_to_history \in BOOLEAN :
          /\ save_to_history => Len(session_state.emotion_history) < MaxEntries
          /\ \E cut \in Cuts(CleanText(input_text)) :
                AnalyzeButton(input_text, cut, sentiment, save_to_history)

NextPage ==
    \/ PageAnalyze
    \/ ClearEmotionHistory

SpecPage == Init /\ [][NextPage]_vars

----------------------------------------------------------------------------
(* utils/helpers.py: clean_text, truncate_text, validate_memory_fragments *)

\* '#', a character clean_text removes, and '.', the character of the suffix
ch_hash == "U0023"
ch_dot == "U002E"

\* the characters of the texts given to the helpers
HelperChars == {ch_hao, ch_space, ch_hash}

\* the characters the second re.sub of clean_text keeps
KeptChars == {ch_hao, ch_shu, ch_space, ch_comma}

\* re.sub(r'\s+', ' ', ...): every run of whitespace becomes one space
RECURSIVE Collapse(_)
Collapse(text) ==
    IF Len(text) < 2 THEN text
    ELSE IF text[1] \in SpaceChars /\ text[2] \in SpaceChars
    THEN Collapse(Tail(text))
    ELSE <<text[1]>> \o Collapse(Tail(text))

\* clean_text
clean_text(text) ==
    IF text = <<>> THEN <<>>
    ELSE SelectSeq(Collapse(Strip(text)), LAMBDA c : c \in KeptChars)

\* text[:stop] of Python: a negative stop counts from the end
SliceTo(text, stop) ==
    LET end == IF stop < 0 THEN Len(text) + stop ELSE stop
    IN  SubSeq(text, 1, IF end < 0 THEN 0 ELSE IF end > Len(text) THEN Len(text) ELSE end)

\* truncate_text
truncate_text(text, max_length, suffix) ==
    IF text = <<>> \/ Len(text) <= max_length THEN text
    ELSE SliceTo(text, max_length - Len(suffix)) \o suffix

\* the shortest fragment kept, the length above which a fragment is said to
\* be long, and the length it is shown at in the warning
MinFragmentLen == 2
LongFragment == 50
ShownLength == 30

\* the default suffix "..."
DefaultSuffix == <<ch_dot, ch_dot, ch_dot>>

\* a long fragment is warned about and dropped
KeepFragment_notLong(cleaned) ==
    Len(cleaned) >= MinFragmentLen /\ Len(cleaned) <= LongFragment

\* the fragment reaches `cleaned_fragments.append(cleaned)`: neither of the
\* two `continue` was taken
KeepFragment(cleaned) == cleaned # <<>> /\ Len(cleaned) >= MinFragmentLen

\* the warnings of one round of the loop, as a list of at most one
FragmentWarnings(i, cleaned) ==
    IF cleaned = <<>> THEN << [kind |-> "empty", index |-> i, shown |-> <<>>] >>
    ELSE IF Len(cleaned) < MinFragmentLen
    THEN << [kind |-> "too short", index |-> i, shown |-> cleaned] >>
    ELSE IF Len(cleaned) > LongFragment
    THEN << [kind |-> "too long", index |-> i,
             shown |-> truncate_text(cleaned, ShownLength, DefaultSuffix)] >>
    ELSE <<>>

\* validate_memory_fragments
validate_memory_fragments(fragments) ==
    IF fragments = <<>>
    THEN [valid |-> FALSE, errors |-> <<"empty list">>, warnings |-> <<>>,
          cleaned_fragments |-> <<>>]
    ELSE LET cleaned == [i \in 1..Len(fragments) |-> clean_text(fragments[i])]
             cleaned_fragments == SelectSeq(cleaned, KeepFragment)
         IN  [valid |-> cleaned_fragments # <<>>,
              errors |-> IF cleaned_fragments = <<>> THEN <<"no valid fragment">>
                         ELSE <<>>,
              warnings |-> Concat([i \in 1..Len(fragments) |->
                                      FragmentWarnings(i, cleaned[i])]),
              cleaned_fragments |-> cleaned_fragments]

\* the longest text given to the helpers
MaxHelperLen == 3

\* the texts: every text of 好, space and '#' up to the bound, and a fragment
\* of one character more than LongFragment
HelperTexts == SeqsUpTo(HelperChars, MaxHelperLen)
LongText == [i \in 1..(LongFragment + 1) |-> ch_hao]

\* the suffixes: none, '.', '...'
Suffixes == { <<>>, <<ch_dot>>, DefaultSuffix }

\* the lists of fragments: none, one or two texts, the long one among them
FragmentInputs ==
    LET texts == HelperTexts \cup {LongText}
    IN  {<<>>} \cup {<<a>> : a \in texts} \cup {<<a, b>> : a, b \in texts}

\* the arguments of one call of truncate_text, before the call
TruncateInputs ==
    { [op |-> "input", helper |-> "truncate_text", arg |-> text,
       max_length |-> max_length, suffix |-> suffix] :
          text \in HelperTexts, max_length \in 0..(MaxHelperLen + 1),
          suffix \in Suffixes }

\* the argument of one call of validate_memory_fragments, before the call
ValidateInputs ==
    { [op |-> "input", helper |-> "validate_memory_fragments", arg |-> fragments] :
          fragments \in FragmentInputs }

InitHelpers ==
    /\ Constructed(PlainSettings)
    /\ frame = [t \in Threads |-> IdleFrame]
    /\ jieba = <<>>
    /\ textblob = <<>>
    /\ numpy = <<>>
    /\ results = [t \in Threads |-> <<>>]
    /\ \/ call \in TruncateInputs
       \/ call \in ValidateInputs
    /\ session_state = InitSession
    /\ generator = IdleGenerator

TruncateCall ==
    /\ call.op = "input"
    /\ call.helper = "truncate_text"
    /\ call' = [op |-> "truncate_text", arg |-> call.arg,
                max_length |-> call.max_length, suffix |-> call.suffix,
                value |-> truncate_text(call.arg, call.max_length, call.suffix)]
    /\ Unchanged_analysis
    /\ UNCHANGED <<session_state, generator>>

ValidateCall ==
    /\ call.op = "input"
    /\ call.helper = "validate_memory_fragments"
    /\ call' = [op |-> "validate_memory_fragments", arg |-> call.arg,
                value |-> validate_memory_fragments(call.arg)]
    /\ Unchanged_analysis
    /\ UNCHANGED <<session_state, generator>>

NextHelpers ==
    \/ TruncateCall
    \/ ValidateCall

SpecHelpers == InitHelpers /\ [][NextHelpers]_vars

----------------------------------------------------------------------------
(* Properties of one call *)

\* the text is empty or holds whitespace only
OnlySpaces(text) == \A i \in 1..Len(text) : text[i] \in SpaceChars

\* the calls that have returned, as pairs of a thread and a position
ReturnedCalls == UNION {{<<t, i>> : i \in 1..Len(results[t])} : t \in Threads}

WeightsOf(c) == results[c[1]][c[2]].result.emotion_weights

TextOf(c) == results[c[1]][c[2]].text

Positive(d) == {i \in 1..Len(d) : d[i].v > 0}

\* the one-entry map {emotion: 1.0}
OnlyEmotion(emotion) == << Weighted(emotion, FloatOne) >>

\* C1: every weight analyze_text returns lies in [0, 1]; the weights of a
\* non-empty map sum to 1 within the rounding of one unit per entry; the sum
\* is 0 only for the empty map.
C1_WeightsNormalised ==
    \A c \in ReturnedCalls :
        LET emotion_weights == WeightsOf(c)
        IN  /\ \A i \in 1..Len(emotion_weights) :
                  /\ emotion_weights[i].v >= 0 /\ emotion_weights[i].v <= WScale
                  /\ ~BLess(FloatOne, emotion_weights[i].f)
            /\ emotion_weights # <<>> =>
                  /\ SumValues(emotion_weights) <= WScale
                  /\ SumValues(emotion_weights) >= WScale - Len(emotion_weights)
            /\ SumValues(emotion_weights) = 0 => emotion_weights = <<>>

\* a call has returned weights spread over three emotions or more
C1_Witness ==
    \E c \in ReturnedCalls :
        /\ Len(WeightsOf(c)) >= 3
        /\ \A i \in 1..Len(WeightsOf(c)) : WeightsOf(c)[i].v < WScale

\* C2: once calculate_emotion_weights has run on a non-empty token sequence,
\* whatever the scorer answered or raised, the raw accumulator holds a
\* strictly positive emotion and the weight map is not empty.
C2_TokensGiveWeights ==
    \A t \in Threads :
        (frame[t].pc \in {"extract", "finish", "done"} /\ frame[t].words # <<>>) =>
            /\ Positive(frame[t].emotion_scores) # {}
            /\ frame[t].emotion_weights # <<>>

\* tokens that matched nothing in the three passes, and the map 平静: 1.0
C2_Witness ==
    /\ frame[1].pc = "done"
    /\ frame[1].words # <<>>
    /\ frame[1].direct_matches = 0
    /\ frame[1].fuzzy_matches = 0
    /\ frame[1].semantic_matches = <<>>
    /\ frame[1].emotion_weights = OnlyEmotion(PingJing)

\* C3 as stated: analyze_text returns an empty emotion_weights map only for an
\* empty or whitespace-only text.
C3_EmptyOnlyForBlank ==
    \A c \in ReturnedCalls : WeightsOf(c) = <<>> => OnlySpaces(TextOf(c))

\* C3: analyze_text returns an empty emotion_weights map exactly when
\* preprocess_text leaves no token, which is the case of every empty or
\* whitespace-only text.
C3_EmptyIffNoToken ==
    \A c \in ReturnedCalls :
        LET result == results[c[1]][c[2]].result
        IN  /\ result.emotion_weights = <<>> <=> result.processed_words = <<>>
            /\ OnlySpaces(TextOf(c)) => result.processed_words = <<>>

\* a text with a character that is not whitespace has returned an empty map
C3_Witness ==
    \E c \in ReturnedCalls :
        /\ ~OnlySpaces(TextOf(c))
        /\ results[c[1]][c[2]].result.processed_words = <<>>
        /\ WeightsOf(c) = <<>>

\* C4: for an empty or whitespace-only text analyze_text returns at once, and
\* returns exactly empty weights, empty keywords, no dominant emotion,
\* diversity 0.0, no processed word and word count 0.
C4_BlankResult ==
    /\ \A c \in ReturnedCalls :
          OnlySpaces(TextOf(c)) =>
              results[c[1]][c[2]].result =
                  [emotion_weights |-> <<>>, emotion_keywords |-> <<>>,
                   dominant_emotion |-> None, emotion_diversity |-> BZero,
                   processed_words |-> <<>>, word_count |-> 0]
    /\ \A t \in Threads :
          OnlySpaces(frame[t].text) => frame[t].pc \in {"idle", "done"}

\* a text of whitespace has been analysed
C4_Witness ==
    \E c \in ReturnedCalls : TextOf(c) # <<>> /\ OnlySpaces(TextOf(c))

\* emotion a entered the accumulator before emotion b
ScoredBefore(scores, a, b) ==
    \E i, j \in 1..Len(scores) : i < j /\ scores[i].k = a /\ scores[j].k = b

\* C7: dominant_emotion is None exactly when emotion_weights is empty;
\* otherwise it is an emotion of the largest weight, and every other emotion
\* of that weight received its first score later during the passes.
C7_Dominant ==
    \A t \in Threads :
        frame[t].pc = "done" =>
            LET emotion_weights == frame[t].result.emotion_weights
                dominant_emotion == frame[t].result.dominant_emotion
            IN  /\ dominant_emotion = None <=> emotion_weights = <<>>
                /\ emotion_weights # <<>> =>
                      /\ HasKey(emotion_weights, dominant_emotion)
                      /\ \A i \in 1..Len(emotion_weights) :
                            /\ ~BLess(FloatGet(emotion_weights, dominant_emotion),
                                      emotion_weights[i].f)
                            /\ (/\ emotion_weights[i].f
                                      = FloatGet(emotion_weights, dominant_emotion)
                                /\ emotion_weights[i].k # dominant_emotion) =>
                                  ScoredBefore(frame[t].emotion_scores, dominant_emotion,
                                               emotion_weights[i].k)

\* two emotions share the largest weight
C7_Witness ==
    /\ frame[1].pc = "done"
    /\ \E i, j \in 1..Len(frame[1].result.emotion_weights) :
          LET emotion_weights == frame[1].result.emotion_weights
          IN  /\ i < j
              /\ emotion_weights[i].f = emotion_weights[j].f
              /\ \A n \in 1..Len(emotion_weights) :
                    ~BLess(emotion_weights[i].f, emotion_weights[n].f)
              /\ frame[1].result.dominant_emotion = emotion_weights[i].k

\* C8: emotion_diversity is 0.0 whenever at most one weight is above zero,
\* the empty map included.
C8_DiversityZero ==
    call.op = "calculate_emotion_diversity" =>
        (Len(PositiveWeights(call.arg)) <= 1 => call.value = BZero)

\* the diversity of a map of several entries was worked out, one of them
\* above zero and that one below one unit of 1/WScale
C8_Witness ==
    /\ call.op = "calculate_emotion_diversity"
    /\ Len(call.arg) > 1
    /\ Len(PositiveWeights(call.arg)) = 1
    /\ \E i \in 1..Len(call.arg) : call.arg[i].f # BZero /\ call.arg[i].v = 0
    /\ call.value = BZero

\* thread t's call has returned and its token sequence was one lexicon keyword
SingleKeywordCall(t) ==
    /\ frame[t].pc = "done"
    /\ Len(frame[t].words) = 1
    /\ frame[t].words[1] \in DOMAIN emotion_dict

\* pass 2 fires for the word and the keyword
FuzzyTriggers(word, keyword) ==
    /\ Len(keyword) >= 2
    /\ \/ IsSubstring(keyword, word) /\ Len(word) <= Len(keyword) + 2
       \/ IsSubstring(word, keyword) /\ Len(keyword) <= Len(word) + 2

\* pass 1 or pass 2 scores the word for the emotion
Triggers(word, emotion) ==
    \/ word \in DOMAIN emotion_dict /\ emotion_dict[word] = emotion
    \/ \E i \in 1..Len(emotion_keywords) :
          /\ emotion_keywords[i].emotion = emotion
          /\ \E j \in 1..Len(emotion_keywords[i].keywords) :
                FuzzyTriggers(word, emotion_keywords[i].keywords[j])

\* a keyword or a semantic word of another emotion than `own` matches the word
OtherEmotionHit(word, own) ==
    \/ \E emotion \in Categories \ {own} :
          \E i \in 1..Len(emotion_keywords) :
              /\ emotion_keywords[i].emotion = emotion
              /\ \E j \in 1..Len(emotion_keywords[i].keywords) :
                    FuzzyTriggers(word, emotion_keywords[i].keywords[j])
    \/ \E i \in 1..Len(semantic_rules) :
          /\ semantic_rules[i].emotion # own
          /\ \E j \in 1..Len(semantic_rules[i].keywords) :
                \/ IsSubstring(semantic_rules[i].keywords[j], word)
                \/ IsSubstring(word, semantic_rules[i].keywords[j])

\* C9 as stated: a token sequence that is one lexicon keyword k yields the
\* weight map with the emotion of k alone, at weight 1.0.
C9_KeywordAlone ==
    \A t \in Threads :
        SingleKeywordCall(t) =>
            frame[t].result.emotion_weights =
                OnlyEmotion(emotion_dict[frame[t].words[1]])

\* C9: a token sequence that is one lexicon keyword k gives the emotion of k
\* (the last one that lists k) a weight above zero; the map is that emotion
\* alone at weight 1.0 exactly when no keyword of another emotion fuzzy-matches
\* k and no semantic word of another emotion contains k or lies inside it.
C9_KeywordOwnEmotion ==
    \A t \in Threads :
        SingleKeywordCall(t) =>
            LET word == frame[t].words[1]
                own == emotion_dict[word]
                emotion_weights == frame[t].result.emotion_weights
            IN  /\ Get(emotion_weights, own) > 0
                /\ emotion_weights = OnlyEmotion(own) <=> ~OtherEmotionHit(word, own)

\* a keyword that nothing of another emotion matches was analysed alone
C9_Witness ==
    /\ SingleKeywordCall(1)
    /\ ~OtherEmotionHit(frame[1].words[1], emotion_dict[frame[1].words[1]])
    /\ frame[1].result.emotion_weights = OnlyEmotion(emotion_dict[frame[1].words[1]])

\* the position of the first occurrence of x in seq
FirstIndex(seq, x) ==
    CHOOSE i \in 1..Len(seq) : seq[i] = x /\ \A j \in 1..(i - 1) : seq[j] # x

\* C10: extract_emotion_keywords lists under each emotion every token that
\* triggered pass 1 or pass 2 of calculate_emotion_weights for that emotion,
\* and the tokens of a list come in the order of their first occurrence in
\* the token sequence.
C10_TriggeringTokensListed ==
    \A t \in Threads :
        frame[t].pc = "done" =>
            \A emotion \in Categories :
                LET words == frame[t].words
                    list == Listed(frame[t].result.emotion_keywords, emotion)
                IN  /\ \A i \in 1..Len(words) :
                          Triggers(words[i], emotion) => InList(words[i], list)
                    /\ \A a, b \in 1..Len(list) :
                          (/\ InList(list[a], words) /\ InList(list[b], words)
                           /\ FirstIndex(list, list[a]) < FirstIndex(list, list[b])) =>
                              FirstIndex(words, list[a]) < FirstIndex(words, list[b])

\* two different tokens triggered passes for one emotion and are both listed
C10_Witness ==
    /\ frame[1].pc = "done"
    /\ \E emotion \in Categories :
          \E i, j \in 1..Len(frame[1].words) :
              /\ i < j
              /\ frame[1].words[i] # frame[1].words[j]
              /\ Triggers(frame[1].words[i], emotion)
              /\ Triggers(frame[1].words[j], emotion)
              /\ Len(Listed(frame[1].result.emotion_keywords, emotion)) >= 2

\* C11 as stated: no list of emotion_keywords holds the same token twice.
C11_NoDuplicates ==
    \A t \in Threads :
        frame[t].pc = "done" =>
            \A emotion \in Categories :
                LET list == Listed(frame[t].result.emotion_keywords, emotion)
                IN  \A a, b \in 1..Len(list) : list[a] = list[b] => a = b

\* C12 as stated: a token is listed under an emotion only if pass 1 or pass 2
\* of calculate_emotion_weights scored it for that emotion, and every emotion
\* of emotion_keywords has a weight above zero.
C12_OnlyMatcherHits ==
    \A t \in Threads :
        frame[t].pc = "done" =>
            \A i \in 1..Len(frame[t].result.emotion_keywords) :
                LET entry == frame[t].result.emotion_keywords[i]
                IN  /\ \A j \in 1..Len(entry.keywords) :
                          Triggers(entry.keywords[j], entry.emotion)
                    /\ Get(frame[t].result.emotion_weights, entry.emotion) > 0

----------------------------------------------------------------------------
(* Properties of repeated and of concurrent calls *)

\* C5: with a deterministic tokenizer and scorer, two analyze_text calls of
\* one analyzer on the same text return the same result, and after any
\* sequence of calls the lexicon, the keyword dictionary and the stopword set
\* are those of the constructor.
C5_Idempotent ==
    /\ \A i, j \in 1..Len(results[1]) :
          results[1][i].text = results[1][j].text =>
              results[1][i].result = results[1][j].result
    /\ \E settings \in Settings : Constructed(settings)

\* a text was analysed twice, with weights over two emotions or more
C5_Witness ==
    /\ Len(results[1]) >= 2
    /\ results[1][1].text = results[1][2].text
    /\ Len(results[1][1].result.emotion_weights) >= 2
    /\ results[1][1].result = results[1][2].result

\* C6: under every interleaving of the steps of two analyze_text calls on one
\* analyzer, what a call has computed when it returns is what the same call
\* returns when it runs alone, and the analyzer's lexicon, dictionary and
\* stopword set stay as constructed.
C6_ConcurrentCalls ==
    /\ \A t \in Threads :
          /\ frame[t].pc = "finish" =>
                [words |-> frame[t].words,
                 emotion_weights |-> frame[t].emotion_weights,
                 attribution |-> frame[t].attribution]
                    = AnalysedAlone(frame[t].text)
          /\ frame[t].pc = "done" =>
                /\ Present(frame[t].result) = RunAlone(frame[t].text)
                /\ results[t][Len(results[t])] =
                      [text |-> frame[t].text, result |-> frame[t].result]
    /\ \E settings \in Settings : Constructed(settings)

\* both calls are about to return, so each ran all its steps while the other
\* was in progress, and they computed different non-empty weight maps
C6_Witness ==
    /\ frame[1].pc = "finish"
    /\ frame[2].pc = "finish"
    /\ frame[1].emotion_weights # <<>>
    /\ frame[2].emotion_weights # <<>>
    /\ frame[1].emotion_weights # frame[2].emotion_weights

----------------------------------------------------------------------------
(* Properties of get_emotion_summary *)

\* the parts of the given kind in a summary
PartsOf(summary, kind) == SelectSeq(summary, LAMBDA part : part.kind = kind)

\* C13: get_emotion_summary returns the fixed message for an empty weight
\* map; otherwise it reports the dominant emotion with its weight, and as
\* secondary emotions at most two, none of them the dominant one, each
\* weighing at least as much as every emotion it leaves out.
C13_Summary ==
    call.op = "get_emotion_summary" =>
        LET emotion_weights == call.arg.emotion_weights
            dominant_emotion == call.arg.dominant_emotion
            dominant == PartsOf(call.value, "dominant")
            secondary == PartsOf(call.value, "secondary")
            named == IF secondary = <<>> THEN <<>> ELSE secondary[1].emotions
            shown == {dominant_emotion} \cup {named[i].emotion : i \in 1..Len(named)}
        IN  /\ emotion_weights = <<>> <=> call.value = NoEmotionSummary
            /\ emotion_weights # <<>> =>
                  /\ Len(dominant) = 1
                  /\ dominant[1].emotion = dominant_emotion
                  /\ 100 * dominant[1].weight - Get(emotion_weights, dominant_emotion)
                        \in -50..50
                  /\ Len(secondary) <= 1
                  /\ Len(named) = (IF Len(emotion_weights) > 3 THEN 2
                                   ELSE Len(emotion_weights) - 1)
                  /\ \A i \in 1..Len(named) :
                        /\ named[i].emotion # dominant_emotion
                        /\ HasKey(emotion_weights, named[i].emotion)
                        /\ 100 * named[i].weight - Get(emotion_weights, named[i].emotion)
                              \in -50..50
                        /\ \A j \in 1..(i - 1) : named[j].emotion # named[i].emotion
                        /\ \A e \in Keys(emotion_weights) \ shown :
                              ~BLess(FloatGet(emotion_weights, named[i].emotion),
                                     FloatGet(emotion_weights, e))

\* a map of four emotions, the two largest weights equal, was summarised
C13_Witness ==
    /\ call.op = "get_emotion_summary"
    /\ Len(call.arg.emotion_weights) = 4
    /\ \E i, j \in 1..4 :
          /\ i < j
          /\ call.arg.emotion_weights[i].f = call.arg.emotion_weights[j].f
          /\ \A n \in 1..4 : call.arg.emotion_weights[n].v <= call.arg.emotion_weights[i].v
    /\ Len(PartsOf(call.value, "secondary")[1].emotions) = 2

\* the label of a summary, "" when it has none
LabelOf(summary) ==
    IF PartsOf(summary, "diversity") = <<>> THEN ""
    ELSE PartsOf(summary, "diversity")[1].label

\* C14 as stated: the label is 'highly diverse' exactly when diversity > 0.7,
\* 'moderately diverse' for every diversity from 0.4 to 0.7, both included,
\* and 'singular' only when diversity < 0.4.
C14_LabelsInclusive ==
    (call.op = "get_emotion_summary" /\ call.arg.emotion_weights # <<>>) =>
        LET emotion_diversity == call.arg.emotion_diversity
            label == LabelOf(call.value)
        IN  /\ label = "highly diverse" <=> BLess(FloatOf(7, 10), emotion_diversity)
            /\ (/\ ~BLess(emotion_diversity, FloatOf(4, 10))
                /\ ~BLess(FloatOf(7, 10), emotion_diversity)) =>
                  label = "moderately diverse"
            /\ label = "singular" => BLess(emotion_diversity, FloatOf(4, 10))

\* C14: the label is 'highly diverse' exactly when diversity > 0.7,
\* 'moderately diverse' exactly when 0.4 < diversity <= 0.7, and 'singular'
\* exactly when diversity <= 0.4.
C14_Labels ==
    (call.op = "get_emotion_summary" /\ call.arg.emotion_weights # <<>>) =>
        LET emotion_diversity == call.arg.emotion_diversity
            label == LabelOf(call.value)
        IN  /\ label = "highly diverse" <=> BLess(FloatOf(7, 10), emotion_diversity)
            /\ label = "moderately diverse" <=>
                  (/\ BLess(FloatOf(4, 10), emotion_diversity)
                   /\ ~BLess(FloatOf(7, 10), emotion_diversity))
            /\ label = "singular" <=> ~BLess(FloatOf(4, 10), emotion_diversity)

\* a result of diversity 0.4 exactly was summarised as singular
C14_Witness ==
    /\ call.op = "get_emotion_summary"
    /\ call.arg.emotion_weights # <<>>
    /\ call.arg.emotion_diversity = FloatOf(4, 10)
    /\ LabelOf(call.value) = "singular"

----------------------------------------------------------------------------
(* Properties of preprocess_text *)

\* C15: every token preprocess_text returns is non-empty, has no whitespace
\* at either end, has at least 2 characters and is no stopword; the tokens
\* are stripped pieces of the segmenter's output, in the segmenter's order;
\* an empty or whitespace-only text gives no token.
C15_Tokens ==
    call.op = "preprocess_text" =>
        LET words == call.value
            pieces == call.cut
        IN  /\ \A i \in 1..Len(words) :
                  /\ Len(words[i]) >= 2
                  /\ words[i][1] \notin SpaceChars
                  /\ words[i][Len(words[i])] \notin SpaceChars
                  /\ words[i] \notin stopwords
            /\ \E at \in [1..Len(words) -> 1..Len(pieces)] :
                  /\ \A i, j \in 1..Len(words) : i < j => at[i] < at[j]
                  /\ \A i \in 1..Len(words) : words[i] = Strip(pieces[at[i]])
            /\ OnlySpaces(call.arg) => words = <<>>

\* the segmenter gave more pieces than tokens were kept, and one was kept
C15_Witness ==
    /\ call.op = "preprocess_text"
    /\ Len(call.value) >= 1
    /\ Len(call.cut) > Len(call.value)

----------------------------------------------------------------------------
(* Properties of calculate_emotion_weights *)

\* the emotions the lexicon lists
LexiconEmotions == {emotion_keywords[i].emotion : i \in 1..Len(emotion_keywords)}

\* 喜悦, 温暖, 忧伤, 失落, 思念, 平静: the emotions the polarity step adds to
FallbackTargets == {XiYue, WenNuan, YouShang, ShiLuo, SiNian, PingJing}

\* a semantic word of the emotion is inside some token or around it
SemanticTriggered(words, emotion) ==
    \E n \in 1..Len(words) :
        \E i \in 1..Len(semantic_rules) :
            /\ semantic_rules[i].emotion = emotion
            /\ \E j \in 1..Len(semantic_rules[i].keywords) :
                  \/ IsSubstring(semantic_rules[i].keywords[j], words[n])
                  \/ IsSubstring(words[n], semantic_rules[i].keywords[j])

\* C16 as stated: every emotion of the weight map is an emotion of the
\* lexicon or one of the six the polarity fallback targets.
C16_LexiconOrFallback ==
    call.op = "calculate_emotion_weights" =>
        Keys(call.value) \subseteq LexiconEmotions \cup FallbackTargets

\* C16: every emotion of the weight map is an emotion of the lexicon, or the
\* emotion of a semantic rule that matches some token, or one of the six the
\* polarity fallback targets.
C16_LexiconSemanticOrFallback ==
    call.op = "calculate_emotion_weights" =>
        \A emotion \in Keys(call.value) :
            \/ emotion \in LexiconEmotions
            \/ SemanticTriggered(call.arg, emotion)
            \/ emotion \in FallbackTargets

\* 期待, which neither the lexicon nor the fallback names, has a weight
C16_Witness ==
    /\ call.op = "calculate_emotion_weights"
    /\ QiDai \notin LexiconEmotions
    /\ SemanticTriggered(call.arg, QiDai)
    /\ Get(call.value, QiDai) > 0

\* the scores of the three passes in the accumulator
PassScores(words) ==
    MergeScores(MergeScores(MergeScores(<<>>, DirectPass(words)), FuzzyPass(words)),
                semantic_emotion_analysis(words))

\* C17: when the scorer raises, calculate_emotion_weights returns the map it
\* returns when the scorer answers polarity 0 and subjectivity 0: the
\* normalised scores of the three passes, or 平静 alone when they sum to zero.
C17_ScorerFailure ==
    (call.op = "calculate_emotion_weights" /\ call.sentiment = Raised) =>
        /\ call.value = calculate_emotion_weights(call.arg, Silent)
        /\ call.arg # <<>> =>
              call.value = (IF SumValues(PassScores(call.arg)) = 0
                            THEN OnlyEmotion(PingJing)
                            ELSE Normalize(PassScores(call.arg)))

\* the scorer raised on tokens that scored for two emotions or more
C17_Witness ==
    /\ call.op = "calculate_emotion_weights"
    /\ call.sentiment = Raised
    /\ Len(PassScores(call.arg)) >= 2
    /\ Len(call.value) >= 2

\* C18: every emotion that has a semantic word inside some token or around
\* it gets a weight above zero; the tokens 阳光, 心情, 开心, 笑容, 满面 give a
\* non-empty map with 喜悦 or 温暖 among the three largest weights, above 0.1.
C18_SemanticWeight ==
    call.op = "calculate_emotion_weights" =>
        /\ \A emotion \in Categories :
              SemanticTriggered(call.arg, emotion) => Get(call.value, emotion) > 0
        /\ call.arg = ExampleWords =>
              /\ call.value # <<>>
              /\ \E emotion \in {XiYue, WenNuan} :
                    /\ 10 * Get(call.value, emotion) > WScale
                    /\ Cardinality({e \in Keys(call.value) :
                          Get(call.value, e) > Get(call.value, emotion)}) < 3

\* the example tokens were weighed
C18_Witness ==
    /\ call.op = "calculate_emotion_weights"
    /\ call.arg = ExampleWords
    /\ SemanticTriggered(call.arg, XiYue)
    /\ Get(call.value, XiYue) > 0

----------------------------------------------------------------------------
(* Properties of the story generator *)

\* the positions of the log with the given event
EventsAt(log, event) == {n \in 1..Len(log) : log[n].event = event}

\* C19: generate_multiple_versions with fragments sends its requests one
\* after another, each only when the previous one has been answered, sleeps
\* between every two consecutive requests and not after the last one, and
\* has sent num_versions requests when it returns.
C19_SequentialRequests ==
    (generator.op = "generate_multiple_versions" /\ generator.memory_fragments # <<>>) =>
        LET log == generator.log
        IN  /\ \A n \in 1..Len(log) :
                  /\ log[n].event = "request" =>
                        /\ n = 1 \/ log[n - 1].event = "sleep"
                        /\ log[n].attempt = Cardinality(EventsAt(SubSeq(log, 1, n), "request"))
                  /\ log[n].event = "response" =>
                        /\ n > 1
                        /\ log[n - 1].event = "request"
                        /\ log[n - 1].attempt = log[n].attempt
                  /\ log[n].event = "sleep" =>
                        /\ n > 1
                        /\ log[n - 1].event = "response"
                        /\ log[n - 1].attempt = log[n].attempt
                        /\ log[n].attempt < generator.num_versions
            /\ generator.pc = "returned" =>
                  /\ Cardinality(EventsAt(log, "request")) = generator.num_versions
                  /\ Cardinality(EventsAt(log, "sleep")) =
                        (IF generator.num_versions = 0 THEN 0
                         ELSE generator.num_versions - 1)
                  /\ log # <<>> => log[Len(log)].event = "response"

\* three versions were asked for and the call has returned
C19_Witness ==
    /\ generator.op = "generate_multiple_versions"
    /\ generator.pc = "returned"
    /\ generator.num_versions = 3
    /\ Cardinality(EventsAt(generator.log, "request")) = 3
    /\ Cardinality(EventsAt(generator.log, "sleep")) = 2

----------------------------------------------------------------------------
(* Properties of the page *)

\* the generate action that has just ended showed a warning or an error
GenerateFailedJustNow ==
    /\ generator.pc = "idle"
    /\ call.op = "render_story_generator"
    /\ call.value \in {"warning", "error"}

\* C20: a generate action whose result is a failure (generate_story returned
\* success False, or generate_multiple_versions returned an empty list)
\* leaves emotion_history, current_analysis, story_history and current_story
\* as they were before the action; and while the generator runs nothing of
\* the session state changes.
C20_FailureChangesNothing ==
    /\ GenerateFailedJustNow =>
          /\ session_state.emotion_history = call.before.emotion_history
          /\ session_state.current_analysis = call.before.current_analysis
          /\ session_state.story_history = call.before.story_history
          /\ session_state.current_story = call.before.current_story
    /\ generator.pc # "idle" => session_state = call.before

\* a generation has just failed on a session that holds an analysis, a
\* saved analysis, a story and a story history
C20_Witness ==
    /\ GenerateFailedJustNow
    /\ call.value = "error"
    /\ session_state.emotion_history # <<>>
    /\ session_state.current_analysis # Absent
    /\ session_state.story_history # <<>>
    /\ session_state.current_story # Absent

----------------------------------------------------------------------------
(* Properties of the direct calls of the generator *)

\* C21: call_pollinations_api returns None for an empty prompt and for a
\* request that ends with an HTTP error status, a timeout or any other
\* exception, and the stripped text otherwise; generate_story returns success
\* True exactly when call_pollinations_api returned a non-empty text, and
\* otherwise success False with an error message, story '' and metadata {}.
C21_ApiFailure ==
    \A t \in Threads :
        /\ (call[t].op = "call_pollinations_api" /\ call[t].pc = "returned") =>
              /\ (call[t].arg = <<>> \/ call[t].outcome.kind # "ok") =>
                    call[t].value = None
              /\ (call[t].arg # <<>> /\ call[t].outcome.kind = "ok") =>
                    call[t].value = Strip(call[t].outcome.text)
        /\ (call[t].op = "generate_story" /\ call[t].pc = "returned") =>
              /\ call[t].value.success <=>
                    (call[t].answer # None /\ call[t].answer # <<>>)
              /\ call[t].value.success => call[t].value.story = call[t].answer
              /\ ~call[t].value.success =>
                    /\ call[t].value.error # ""
                    /\ call[t].value.story = <<>>
                    /\ call[t].value.metadata = <<>>

\* generate_story failed on a request that timed out; the other thread's
\* call_pollinations_api returned the text of its response
C21_Witness ==
    \E t, u \in Threads :
        /\ t # u
        /\ call[t].op = "generate_story"
        /\ call[t].pc = "returned"
        /\ call[t].arg # <<>>
        /\ call[t].outcome.kind = "timeout"
        /\ call[t].answer = None
        /\ ~call[t].value.success
        /\ call[u].op = "call_pollinations_api"
        /\ call[u].pc = "returned"
        /\ call[u].outcome.kind = "ok"
        /\ call[u].value = <<ch_hao>>

----------------------------------------------------------------------------
(* Properties of the polarity step and of the fuzzy pass *)

\* direct hits + fuzzy hits + the sum of the semantic scores, in hundredths
MatchesOf(words) ==
    TotalMatches(SumN(DirectPass(words)), SumN(FuzzyPass(words)),
                 semantic_emotion_analysis(words))

\* the accumulator differs from the scores of the three passes by nothing
\* but the zero-sum addition to 平静
OnlyZeroSumAdded(scores, passes) ==
    IF SumValues(passes) = 0
    THEN \A emotion \in Categories \ {PingJing} : Get(scores, emotion) = 0
    ELSE scores = passes

\* C22: when total_matches (exact hits + fuzzy hits + sum of the semantic
\* scores) is 2 or more, or subjectivity is 0.3 or less, or the scorer
\* raises, the accumulator after the polarity step is the accumulator of the
\* three passes, apart from the zero-sum addition to 平静; so the fallback
\* adds score only if total_matches < 2 and subjectivity > 0.3.
C22_FallbackGuard ==
    (call.op = "calculate_emotion_weights" /\ call.arg # <<>>) =>
        ((\/ call.sentiment.raised
          \/ MatchesOf(call.arg) >= SparseMatches
          \/ call.sentiment.subjectivity <= SubjectiveAbove)
            => OnlyZeroSumAdded(call.scores, PassScores(call.arg)))

\* a polar and subjective answer of the scorer was ignored since the passes
\* found two matches or more, and one was ignored for its low subjectivity
\* although a single semantic hit was all the passes found
C22_Witness ==
    /\ call.op = "calculate_emotion_weights"
    /\ ~call.sentiment.raised
    /\ call.sentiment.polarity > PolarAbove
    /\ call.scores = PassScores(call.arg)
    /\ \/ /\ MatchesOf(call.arg) >= SparseMatches
          /\ call.sentiment.subjectivity > SubjectiveAbove
       \/ /\ MatchesOf(call.arg) = W_semantic
          /\ call.sentiment.subjectivity = SubjectiveAbove

\* the fallback applies to the call: the scorer answered, the passes found
\* fewer than two matches and subjectivity is above 0.3
FallbackApplies ==
    /\ ~call.sentiment.raised
    /\ MatchesOf(call.arg) < SparseMatches
    /\ call.sentiment.subjectivity > SubjectiveAbove

\* what C23 lets the fallback add to an emotion, in hundredths
FallbackAddition(emotion, polarity, subjectivity) ==
    IF polarity > PolarAbove
    THEN (IF emotion = XiYue THEN polarity * PolarMajor
          ELSE IF emotion = WenNuan THEN polarity * PolarMinor ELSE 0)
    ELSE IF polarity < -PolarAbove
    THEN (IF emotion = YouShang THEN (-polarity) * PolarMajor
          ELSE IF emotion = ShiLuo THEN (-polarity) * PolarMinor ELSE 0)
    ELSE IF polarity >= -NeutralUpTo /\ polarity <= NeutralUpTo
            /\ subjectivity > VerySubjectiveAbove
    THEN (IF emotion = SiNian THEN W_neutral_major
          ELSE IF emotion = PingJing THEN W_neutral_minor ELSE 0)
    ELSE 0

\* C23: when the fallback applies it adds polarity*1.5 to 喜悦 and
\* polarity*1.0 to 温暖 for polarity > 0.2, |polarity|*1.5 to 忧伤 and
\* |polarity|*1.0 to 失落 for polarity < -0.2, 0.3 to 思念 and 0.2 to 平静 for
\* |polarity| <= 0.1 with subjectivity > 0.5, and nothing otherwise; whenever
\* the scorer answered and the accumulator still sums to zero, 平静 gets 0.3
\* when subjectivity > 0.3 and 0.1 otherwise.
C23_FallbackBranches ==
    (call.op = "calculate_emotion_weights" /\ call.arg # <<>> /\ ~call.sentiment.raised) =>
        LET passes == PassScores(call.arg)
            polarity == call.sentiment.polarity
            subjectivity == call.sentiment.subjectivity
            added(emotion) ==
                IF FallbackApplies
                THEN FallbackAddition(emotion, polarity, subjectivity) ELSE 0
            still_zero ==
                SumValues(passes) = 0 /\ \A emotion \in Categories : added(emotion) = 0
            floor(emotion) ==
                IF still_zero /\ emotion = PingJing
                THEN (IF subjectivity > SubjectiveAbove THEN W_neutral_major ELSE W_floor)
                ELSE 0
        IN  \A emotion \in Categories :
                Get(call.scores, emotion) =
                    Get(passes, emotion) + added(emotion) + floor(emotion)

\* the fallback applied with a polarity of exactly 0.2 and added nothing to
\* what a semantic hit had scored
C23_Witness ==
    /\ call.op = "calculate_emotion_weights"
    /\ FallbackApplies
    /\ call.sentiment.polarity = PolarAbove
    /\ PassScores(call.arg) # <<>>
    /\ call.scores = PassScores(call.arg)

\* the (token, keyword) pairs of an emotion, as positions in the token
\* sequence, in the lexicon and in the keyword list
PairsOf(words, emotion) ==
    UNION {{<<n, i, j>> : n \in 1..Len(words),
                          j \in 1..Len(emotion_keywords[i].keywords)} :
           i \in {c \in 1..Len(emotion_keywords) :
                     emotion_keywords[c].emotion = emotion}}

\* the keyword of the pair is inside its token, at most 2 characters longer
KeywordInToken(words, pair) ==
    LET word == words[pair[1]]
        keyword == emotion_keywords[pair[2]].keywords[pair[3]]
    IN  /\ Len(keyword) >= 2
        /\ IsSubstring(keyword, word)
        /\ Len(word) <= Len(keyword) + 2

\* otherwise the token of the pair is inside its keyword, at most 2
\* characters longer
TokenInKeyword(words, pair) ==
    LET word == words[pair[1]]
        keyword == emotion_keywords[pair[2]].keywords[pair[3]]
    IN  /\ Len(keyword) >= 2
        /\ ~KeywordInToken(words, pair)
        /\ IsSubstring(word, keyword)
        /\ Len(keyword) <= Len(word) + 2

\* C24: the fuzzy pass adds to each category, for every pair of a token and
\* a keyword of the category of length 2 or more, 0.8 when the keyword is
\* inside the token and the token is at most 2 longer, otherwise 0.6 when
\* the token is inside the keyword and the keyword is at most 2 longer,
\* otherwise nothing; fuzzy_matches counts the pairs that added.
C24_FuzzyPairs ==
    (call.op = "calculate_emotion_weights" /\ "fuzzy_matches" \in DOMAIN call) =>
        LET inside(emotion) ==
                {pair \in PairsOf(call.arg, emotion) : KeywordInToken(call.arg, pair)}
            around(emotion) ==
                {pair \in PairsOf(call.arg, emotion) : TokenInKeyword(call.arg, pair)}
        IN  /\ \A emotion \in Categories :
                  Get(call.emotion_scores, emotion) =
                      W_fuzzy_contains * Cardinality(inside(emotion))
                      + W_fuzzy_contained * Cardinality(around(emotion))
            /\ call.fuzzy_matches =
                  Cardinality(UNION {inside(emotion) \cup around(emotion) :
                                        emotion \in Categories})

\* the token 好树 scored 0.8 for 平静 through the keyword 好树 and nothing for
\* 忧伤, whose keyword 好树树树树 holds it but is 3 characters longer
C24_Witness ==
    /\ call.op = "calculate_emotion_weights"
    /\ "fuzzy_matches" \in DOMAIN call
    /\ emotion_keywords = LongSettings.lexicon
    /\ call.arg = << <<ch_hao, ch_shu>> >>
    /\ Get(call.emotion_scores, PingJing) = W_fuzzy_contains
    /\ Get(call.emotion_scores, YouShang) = 0

----------------------------------------------------------------------------
(* Properties of a token that is a keyword *)

\* the calls of analyze_text that have left the polarity step with tokens
Scored == {t \in Threads : frame[t].pc \in {"extract", "finish", "done"}
                           /\ frame[t].words # <<>>}

\* the tokens of the call that are lexicon keywords
KeywordTokens(t) ==
    {n \in 1..Len(frame[t].words) : frame[t].words[n] \in DOMAIN emotion_dict}

\* C25: when a token of analyze_text equals a lexicon keyword, the keyword
\* has 2 characters or more, its category holds at least 1.5 + 0.8 = 2.3 of
\* raw score, total_matches is at least 2, and the polarity step adds
\* nothing to the scores of the three passes, whatever the scorer does.
C25_KeywordSilencesFallback ==
    \A t \in Scored :
        \A n \in KeywordTokens(t) :
            /\ Len(frame[t].words[n]) >= 2
            /\ Get(frame[t].emotion_scores, emotion_dict[frame[t].words[n]])
                  >= W_exact + W_fuzzy_contains
            /\ frame[t].direct_matches >= 1
            /\ frame[t].fuzzy_matches >= 1
            /\ TotalMatches(frame[t].direct_matches, frame[t].fuzzy_matches,
                            frame[t].semantic_matches) >= SparseMatches
            /\ frame[t].emotion_scores = PassScores(frame[t].words)

\* a call has returned whose only token is a keyword: one direct match, the
\* fuzzy match with the keyword itself among the fuzzy matches, and the
\* scores of the three passes in the accumulator
C25_Witness ==
    \E t \in Scored :
        /\ frame[t].pc = "done"
        /\ Len(frame[t].words) = 1
        /\ KeywordTokens(t) = {1}
        /\ frame[t].direct_matches = 1
        /\ FuzzyScore(frame[t].words[1], frame[t].words[1]) = W_fuzzy_contains
        /\ frame[t].emotion_scores = PassScores(frame[t].words)

----------------------------------------------------------------------------
(* Properties of the list of versions *)

\* the attempts whose request was answered with a story
SucceededAttempts ==
    {generator.log[n].attempt :
        n \in {m \in EventsAt(generator.log, "response") : generator.log[m].success}}

\* C26: generate_multiple_versions returns at most num_versions results, all
\* with success True, in the order of the attempts; each carries as version
\* the 1-based number of the attempt that produced it, the attempts that
\* failed are not in the list, and every attempt is made whatever happened
\* to the ones before it.
C26_Versions ==
    (generator.op = "generate_multiple_versions" /\ generator.pc = "returned") =>
        LET versions == generator.result
        IN  /\ Len(versions) <= generator.num_versions
            /\ \A k \in 1..Len(versions) :
                  /\ versions[k].success
                  /\ versions[k].version \in 1..generator.num_versions
                  /\ versions[k].story # <<>>
            /\ \A k \in 1..(Len(versions) - 1) :
                  versions[k].version < versions[k + 1].version
            /\ {versions[k].version : k \in 1..Len(versions)} = SucceededAttempts
            /\ generator.memory_fragments # <<>> =>
                  {generator.log[n].attempt : n \in EventsAt(generator.log, "request")}
                      = 1..generator.num_versions

\* three attempts of which the second failed: versions 1 and 3 are returned
C26_Witness ==
    /\ generator.op = "generate_multiple_versions"
    /\ generator.pc = "returned"
    /\ generator.num_versions = 3
    /\ Len(generator.result) = 2
    /\ generator.result[1].version = 1
    /\ generator.result[2].version = 3

----------------------------------------------------------------------------
(* Properties of the story history *)

\* the generate action that has just ended stored what the generator returned
GenerateStoredJustNow ==
    /\ generator.pc = "idle"
    /\ call.op = "render_story_generator"
    /\ call.value = "shown"

\* the stories the generator returned to the handler, as a list
Produced ==
    IF call.method = "generate_story" THEN <<call.result>> ELSE call.result

\* C27: every entry of story_history has success True; current_story is None
\* or a non-empty list of results with success True; and a generation that
\* succeeded has appended the stories the generator returned, and no others,
\* to story_history and put them in current_story.
C27_StoryHistory ==
    /\ \A k \in 1..Len(session_state.story_history) :
          session_state.story_history[k].success
    /\ session_state.current_story # Absent =>
          LET stories == session_state.current_story[1]
          IN  /\ stories # <<>>
              /\ \A k \in 1..Len(stories) : stories[k].success
    /\ GenerateStoredJustNow =>
          /\ session_state.current_story = Present(Produced)
          /\ session_state.story_history = call.before.story_history \o Produced

\* two versions have just been added to a history that held a story
C27_Witness ==
    /\ GenerateStoredJustNow
    /\ call.method = "generate_multiple_versions"
    /\ Len(Produced) = 2
    /\ call.before.story_history # <<>>
    /\ Len(session_state.story_history) = Len(call.before.story_history) + 2

----------------------------------------------------------------------------
(* Properties of the emotion history *)

\* the step is an analyze action or a clearing of the emotion history
PageStep == call' # call \/ session_state' # session_state

\* C28: an analyze action with a text that is not blank sets current_analysis
\* and appends one entry, holding the text and the analysis, exactly when
\* 保存到历史记录 is checked; an analyze action with a blank text changes
\* nothing; clearing empties emotion_history and leaves current_analysis as
\* it is. The history is therefore the list, in order, of the analyses
\* saved since it was last cleared.
C28_EmotionHistory ==
    [][PageStep =>
        LET history == session_state.emotion_history
            after == session_state'.emotion_history
        IN  /\ session_state'.story_history = session_state.story_history
            /\ session_state'.current_story = session_state.current_story
            /\ call'.op = "render_emotion_analyzer" =>
                  IF Strip(call'.arg) = <<>>
                  THEN session_state' = session_state
                  ELSE /\ session_state'.current_analysis # Absent
                       /\ IF call'.save_to_history
                          THEN after = Append(history,
                                   [text |-> call'.arg,
                                    result |-> session_state'.current_analysis[1]])
                          ELSE after = history
            /\ call'.op = "clear_emotion_history" =>
                  /\ after = <<>>
                  /\ session_state'.current_analysis = session_state.current_analysis
            /\ call'.op \in {"render_emotion_analyzer", "clear_emotion_history"}
    ]_vars

\* two analyses of different texts are in the history in the order they were
\* saved, and a later analysis that was not saved is the current one
C28_Witness ==
    /\ call.op = "render_emotion_analyzer"
    /\ ~call.save_to_history
    /\ Strip(call.arg) # <<>>
    /\ Len(session_state.emotion_history) = 2
    /\ session_state.emotion_history[1].text # session_state.emotion_history[2].text
    /\ session_state.current_analysis # Present(session_state.emotion_history[2].result)

----------------------------------------------------------------------------
(* Properties of the helpers *)

\* C29: validate_memory_fragments returns valid True exactly when
\* cleaned_fragments is non-empty and valid False exactly when errors is
\* non-empty; cleaned_fragments is the list, in the order of the input, of
\* the clean_text of every fragment whose clean_text has 2 characters or
\* more, the long ones included, which are warned about.
C29_ValidFragments ==
    call.op = "validate_memory_fragments" =>
        LET result == call.value
            cleaned == [i \in 1..Len(call.arg) |-> clean_text(call.arg[i])]
        IN  /\ result.valid <=> result.cleaned_fragments # <<>>
            /\ ~result.valid <=> result.errors # <<>>
            /\ result.cleaned_fragments = SelectSeq(cleaned, LAMBDA c : Len(c) >= 2)
            /\ \A i \in 1..Len(cleaned) :
                  Len(cleaned[i]) > 50 =>
                      \E w \in 1..Len(result.warnings) :
                          /\ result.warnings[w].index = i
                          /\ result.warnings[w].kind = "too long"

\* a fragment of 51 characters was warned about and kept, after a fragment
\* that clean_text leaves with one character was skipped
C29_Witness ==
    /\ call.op = "validate_memory_fragments"
    /\ Len(call.arg) = 2
    /\ Len(clean_text(call.arg[1])) = 1
    /\ call.arg[2] = LongText
    /\ call.value.valid
    /\ call.value.cleaned_fragments = <<LongText>>
    /\ Len(call.value.warnings) = 2

\* C30 as stated: for every text, max_length >= 0 and suffix, truncate_text
\* returns at most max_length characters: the text itself when it is not
\* longer than max_length, otherwise a prefix of the text followed by the
\* suffix.
C30_Truncated ==
    call.op = "truncate_text" =>
        /\ Len(call.value) <= call.max_length
        /\ Len(call.arg) <= call.max_length => call.value = call.arg
        /\ Len(call.arg) > call.max_length =>
              \E n \in 0..Len(call.arg) :
                  call.value = SubSeq(call.arg, 1, n) \o call.suffix

====
